---- MODULE Spec2Model ----
(***************************************************************************)
(* Agent Workbench: the Agent State Manager (public/state.js) over the     *)
(* persistence store (storage.js), and the completion relay (api.js) with  *)
(* the callbacks the application (app.js) hands to it.                     *)
(*                                                                         *)
(* SpecSM    : the State Manager: in-memory agents, debounce timer, and    *)
(*             the durable stores (IndexedDB agents/meta, localStorage).   *)
(* SpecRelay : one generation request: fetch, stream decoding, callbacks,  *)
(*             cancellation.                                               *)
(* SpecOrder : the State Manager's writes of one agent with the IndexedDB  *)
(*             transactions completing later than the calls that made them.*)
(* SpecProxy : one POST /api/generate in the proxy (server.mjs): request   *)
(*             validation, the upstream stream, the frames written.        *)
(* SpecStore : the State Manager over every kind of stored data a page can *)
(*             find, with durable writes that may fail; each operation's   *)
(*             storage calls are recorded.                                 *)
(* SpecStorage: the storage layer called directly: loadAllAgents and       *)
(*             migrateFromLocalStorage on bounded store contents.          *)
(***************************************************************************)
EXTENDS Integers, Sequences, FiniteSets, TLC

VARIABLES
  \* ---- state.js module state -------------------------------------------
  initDone,               \* init() has resolved
  heap,                   \* agent objects by identity (id |-> record); an
                          \* object outlives its removal from the list while
                          \* pendingAgent still references it
  agents,                 \* let agents = [] : sequence of object references
  currentId,              \* let currentId = null
  fallbackToLocalStorage, \* let fallbackToLocalStorage = false
  saveTimer,              \* let saveTimer = null  (TRUE: a timeout is armed)
  pendingAgent,           \* let pendingAgent = null (a reference)
  \* ---- durable storage ---------------------------------------------------
  dbAgents,               \* IndexedDB object store 'agents' (id |-> record)
  dbMeta,                 \* IndexedDB object store 'meta'
  lsBlob,                 \* localStorage['agent-workbench-state']
  \* ---- observation (history) variables -----------------------------------
  handed,                 \* id |-> last record handed to a durable write
                          \* (or found in storage by init)
  deleted,                \* ids removed by deleteAgent
  win,                    \* the current or last debounce window (see NoWin)
  ops,                    \* State Manager operations called so far
  lag,                    \* transaction completions are observed apart from
                          \* the calls that created the transactions
  hist,                   \* id |-> the successive in-memory states of the agent
  inflight,               \* 'agents' transactions created and not yet complete
  disk,                   \* id |-> [rec, rev]: the record the completed writes
                          \* left on the durable medium, and its place in hist
  audit,                  \* the run records each operation's storage calls
                          \* and lets durable writes fail
  lastOp,                 \* the operation that ran last
  lastArg,                \* the agent id it was called with (Null: none)
  lastIssued,             \* the storage calls it issued, in order
  lastFailed,             \* the writes of it that failed
  okMem,                  \* the agents and currentId it would have left had
                          \* all its writes succeeded
  faults,                 \* operations that had a write fail so far
  sret,                   \* the last direct call of the storage layer and
                          \* what it returned (see NoStorageCall)
  \* ---- one generation request (api.js / app.js) --------------------------
  req,                    \* the request and what the network will answer:
                          \* mode, credential, status, body text
  rpc,                    \* position of the request (see RelayPositions)
  sent,                   \* tokens of the body the server has sent so far
  closed,                 \* the server has closed the body stream
  queue,                  \* chunks received by the body stream, not yet read
  buffer,                 \* readSSE / readOpenRouterSSE: let buffer = ''
  relayText,              \* readOpenRouterSSE: let fullText = ''
  aborted,                \* the AbortSignal has fired
  calls,                  \* callbacks the relay invoked so far, in order
  streaming,              \* app.js: let streaming = false
  doneFired,              \* app.js: let doneFired = false
  doneEffects,            \* times the guarded body of app.js onDone ran
  appText,                \* app.js startGeneration: let fullText = ''
  content,                \* agent.messages[streamIndex].content
  \* ---- one POST /api/generate in the proxy (server.mjs handleGenerate) ---
  hreq,                   \* the HTTP request, the server's environment and
                          \* what the upstream provider will answer
  hpos,                   \* position of handleGenerate (see ProxyPositions)
  resStatus,              \* res.writeHead(status); 0: no head written
  resBody,                \* the { error } body of a 400 / 401 answer
  frames,                 \* frames written with sse(res, ...), in order
  resEnded,               \* res.end() was called
  upKey,                  \* credential of the upstream fetch; "": no fetch made
  upAborted,              \* abortController.abort() was called
  usent,                  \* tokens of the upstream body sent so far
  uclosed,                \* the provider has ended the upstream body
  uqueue,                 \* upstream chunks received, not yet read
  srvBuffer,              \* handleGenerate: let buffer = ''
  srvFullText,            \* handleGenerate: let fullText = ''
  srvAborted,             \* handleGenerate: let aborted = false
  clientClosed,           \* the client has closed the connection
  configRes,              \* bodies of the GET /api/config responses sent
  \* ---- the page (app.js) -------------------------------------------------
  appPos,                 \* position of app.js init(): "config" (state.init()
                          \* was called, fetchConfig() is awaited), "ready"
                          \* (the listeners are set up), "threw"; "off": the
                          \* page is not part of the run
  sharing,                \* pairs {a, b} of agent objects whose messages
                          \* property is one and the same array
  gen,                    \* the generation startGeneration started last: the
                          \* agent object and streamIndex its callbacks
                          \* captured, fullText, and how far it is (see NoGen)
  appEvents,              \* user events handled by the page so far
  later                   \* a generation was started after the request of
                          \* this run had reported, and has not finished

auditVars == <<audit, lastOp, lastArg, lastIssued, lastFailed, okMem, faults, sret>>
smVars == <<initDone, heap, agents, currentId, fallbackToLocalStorage,
            saveTimer, pendingAgent, dbAgents, dbMeta, lsBlob,
            handed, deleted, win, ops, lag, hist, inflight, disk, auditVars>>
relayVars == <<req, rpc, sent, closed, queue, buffer, relayText, aborted, calls,
               streaming, doneFired, doneEffects, appText, content>>
proxyVars == <<hreq, hpos, resStatus, resBody, frames, resEnded, upKey,
               upAborted, usent, uclosed, uqueue, srvBuffer, srvFullText,
               srvAborted, clientClosed, configRes>>
appVars == <<appPos, sharing, gen, appEvents, later>>
vars == <<smVars, relayVars, proxyVars, appVars>>

(***************************************************************************)
(* Bounds                                                                  *)
(***************************************************************************)
MaxIds == 3       \* agent objects ever allocated in one run
MaxOps == 5       \* State Manager operations called in one run
MaxLines == 2     \* lines in the body of one streamed response
MaxStoreOps == 3  \* State Manager operations called in one recorded run
MaxAppEvents == 2 \* user events the page handles in one run
MaxCallbacks == 1 \* onDelta calls of one generation
MaxFaults == 1    \* operations of one run that have a write fail
MaxStorageCalls == 2  \* direct calls of the storage layer in one run

Null == 0         \* null / undefined reference or id
Ids == 1..MaxIds

Range(s) == {s[i] : i \in 1..Len(s)}

(***************************************************************************)
(* state.js: makeAgent, generateId                                         *)
(***************************************************************************)
SetMax(S) == IF S = {} THEN 0 ELSE CHOOSE m \in S : \A x \in S : x <= m

\* generateId(): Date.now() + random suffix; modelled as an id that no
\* object, stored record or legacy blob entry carries.
generateId ==
  SetMax(DOMAIN heap \cup DOMAIN dbAgents
           \cup {lsBlob.agents[i].id : i \in 1..Len(lsBlob.agents)}) + 1

CanAlloc == generateId <= MaxIds

makeAgent(name) ==
  [id |-> generateId,
   name |-> IF name = "" THEN "Agent" ELSE name,
   model |-> "",
   systemPrompt |-> "",
   messages |-> <<>>]

\* Object.assign(agent, patch)
ObjectAssign(agent, patch) ==
  [f \in DOMAIN agent |-> IF f \in DOMAIN patch THEN patch[f] ELSE agent[f]]

\* agents.find(a => a.id === id): index of the first match, 0 if none
FindIndex(list, h, id) ==
  IF \E i \in 1..Len(list) : h[list[i]].id = id
    THEN CHOOSE i \in 1..Len(list) :
           /\ h[list[i]].id = id
           /\ \A j \in 1..(i-1) : h[list[j]].id # id
    ELSE 0

\* agents.map(a => a.id)
IdsOf(list, h) == [i \in 1..Len(list) |-> h[list[i]].id]

\* the records of a list of references (JSON.stringify / structured clone)
RecordsOf(list, h) == [i \in 1..Len(list) |-> h[list[i]]]

(***************************************************************************)
(* storage.js: the IndexedDB stores.  A put() clones the record when it is *)
(* called; transactions on one store commit in the order they were made.   *)
(***************************************************************************)
NoMeta == [k \in {} |-> Null]
\* present: getItem(KEY) !== null; valid: JSON.parse accepts the text
NoBlob == [present |-> FALSE, valid |-> TRUE, agents |-> <<>>,
           currentId |-> Null]
\* a blob whose text is not JSON
CorruptBlob == [present |-> TRUE, valid |-> FALSE, agents |-> <<>>,
                currentId |-> Null]

\* objectStore('agents').put(rec)
DbPut(db, rec) ==
  [i \in DOMAIN db \cup {rec.id} |-> IF i = rec.id THEN rec ELSE db[i]]

\* for (const agent of agents) store.put(agent)
RECURSIVE DbPutAll(_, _)
DbPutAll(db, recs) ==
  IF recs = <<>> THEN db ELSE DbPutAll(DbPut(db, Head(recs)), Tail(recs))

\* objectStore('agents').delete(id)
DbDelete(db, id) == [i \in DOMAIN db \ {id} |-> db[i]]

\* objectStore('meta').put({ key, value })
MetaPut(meta, key, value) ==
  [k \in DOMAIN meta \cup {key} |-> IF k = key THEN value ELSE meta[k]]

\* The durable side of one operation: the stores, what was handed to them,
\* and the storage calls issued so far by the running operation.
Durable == [db |-> dbAgents, meta |-> dbMeta, ls |-> lsBlob,
            handed |-> handed, issued |-> <<>>, txs |-> <<>>]

\* a write of agent records: a readwrite transaction on 'agents' (puts, dels),
\* or the replacement of the whole localStorage blob (whole); awaited: the
\* caller waits for its completion before it goes on
Tx(puts, dels, whole, awaited) ==
  [puts |-> puts, dels |-> dels, whole |-> whole, awaited |-> awaited]

Hand(hd, recs) == DbPutAll(hd, recs)

Call(op, idset) == [op |-> op, ids |-> idset]

saveAgent(S, rec) ==
  [S EXCEPT !.db = DbPut(@, rec),
            !.handed = Hand(@, <<rec>>),
            !.issued = Append(@, Call("saveAgent", {rec.id})),
            !.txs = Append(@, Tx(<<rec>>, {}, FALSE, FALSE))]

saveAgentsBatch(S, recs) ==
  [S EXCEPT !.db = DbPutAll(@, recs),
            !.handed = Hand(@, recs),
            !.issued = Append(@, Call("saveAgentsBatch",
                                      {recs[i].id : i \in 1..Len(recs)})),
            !.txs = Append(@, Tx(recs, {}, FALSE, FALSE))]

storageDeleteAgent(S, id) ==
  [S EXCEPT !.db = DbDelete(@, id),
            !.issued = Append(@, Call("deleteAgent", {id})),
            !.txs = Append(@, Tx(<<>>, {id}, FALSE, FALSE))]

saveMeta(S, key, value) ==
  [S EXCEPT !.meta = MetaPut(@, key, value),
            !.issued = Append(@, Call("saveMeta", {}))]

saveMetaBatch(S, cur, order) ==
  [S EXCEPT !.meta = MetaPut(MetaPut(@, "currentId", cur), "agentOrder", order),
            !.issued = Append(@, Call("saveMetaBatch", {}))]

(***************************************************************************)
(* state.js: persist helpers.  M is the module state at the call:          *)
(* [heap, agents, currentId, fb (fallbackToLocalStorage)].                 *)
(***************************************************************************)
Mem(h, list, cur) ==
  [heap |-> h, agents |-> list, currentId |-> cur,
   fb |-> fallbackToLocalStorage]

\* localStorage.setItem(KEY, JSON.stringify({ agents, currentId }))
legacySave(S, M) ==
  [S EXCEPT !.ls = [present |-> TRUE, valid |-> TRUE,
                    agents |-> RecordsOf(M.agents, M.heap),
                    currentId |-> M.currentId],
            !.handed = Hand(@, RecordsOf(M.agents, M.heap)),
            !.issued = Append(@, Call("legacySave",
                                      Range(IdsOf(M.agents, M.heap)))),
            !.txs = Append(@, Tx(RecordsOf(M.agents, M.heap), {}, TRUE, TRUE))]

persistAgent(S, M, ref) ==
  IF M.fb THEN legacySave(S, M)
  ELSE saveAgent(S, M.heap[ref])

persistMeta(S, M) ==
  IF M.fb THEN legacySave(S, M)
  ELSE saveMetaBatch(S, M.currentId, IdsOf(M.agents, M.heap))

persistAll(S, M) ==
  IF M.fb THEN legacySave(S, M)
  ELSE persistMeta(saveAgentsBatch(S, RecordsOf(M.agents, M.heap)), M)

\* persistDelete in a variant that does not look at fallbackToLocalStorage
persistDelete_AlwaysIndexedDB(S, M, id) == storageDeleteAgent(S, id)

persistDelete(S, M, id) ==
  IF M.fb THEN legacySave(S, M)
  ELSE storageDeleteAgent(S, id)

(***************************************************************************)
(* storage.js: loadAllAgents                                               *)
(***************************************************************************)
\* getAll(): the records in key order
RECURSIVE KeyOrder(_)
KeyOrder(idset) ==
  IF idset = {} THEN <<>>
  ELSE LET m == CHOOSE x \in idset : \A y \in idset : x <= y
       IN <<m>> \o KeyOrder(idset \ {m})

\* the rank in a variant where an id the map lacks sorts first
Rank_AbsentFirst(order, id) ==
  IF \E i \in 1..Len(order) : order[i] = id
    THEN CHOOSE i \in 1..Len(order) :
           /\ order[i] = id
           /\ \A j \in (i+1)..Len(order) : order[j] # id
    ELSE 0

\* new Map(order.map((id, i) => [id, i])): a repeated id keeps its last
\* index; an id the map lacks sorts as Infinity
Rank(order, id) ==
  IF \E i \in 1..Len(order) : order[i] = id
    THEN CHOOSE i \in 1..Len(order) :
           /\ order[i] = id
           /\ \A j \in (i+1)..Len(order) : order[j] # id
    ELSE Len(order) + 1

\* Array.prototype.sort with (a, b) => ai - bi: a stable sort by rank.
\* x precedes every element of sorted in the input, so it goes in front of
\* the elements of equal rank.
RECURSIVE InsertByRank(_, _, _)
InsertByRank(sorted, x, order) ==
  IF sorted = <<>> THEN <<x>>
  ELSE IF Rank(order, x) <= Rank(order, Head(sorted))
         THEN <<x>> \o sorted
         ELSE <<Head(sorted)>> \o InsertByRank(Tail(sorted), x, order)

RECURSIVE SortByRank(_, _)
SortByRank(list, order) ==
  IF list = <<>> THEN <<>>
  ELSE InsertByRank(SortByRank(Tail(list), order), Head(list), order)

loadAllAgents(db, meta) ==
  LET all   == KeyOrder(DOMAIN db)
      order == IF "agentOrder" \in DOMAIN meta THEN meta["agentOrder"] ELSE <<>>
  IN IF Len(order) > 0 THEN SortByRank(all, order) ELSE all

\* loadMeta('currentId') ?? null
loadCurrentId(meta) ==
  IF "currentId" \in DOMAIN meta THEN meta["currentId"] ELSE Null

(***************************************************************************)
(* Debounce window bookkeeping (observation only)                          *)
(***************************************************************************)
NoFields == [k \in {} |-> Null]
\* agent : the agent patched when the timer was armed
\* open  : the timer armed then has not fired yet
\* pure  : every operation since then was a patch of that agent
\* writes: writes of that agent's record issued since then (2 = two or more)
\* fields: the fields patched since then, with their latest values
NoWin == [agent |-> Null, open |-> FALSE, pure |-> FALSE, writes |-> 0,
          fields |-> NoFields]

\* patch fields merged over earlier ones
Merge(p, q) ==
  [f \in DOMAIN p \cup DOMAIN q |-> IF f \in DOMAIN q THEN q[f] ELSE p[f]]

AgentWriteOps == {"saveAgent", "saveAgentsBatch", "legacySave"}

\* number of calls in iss that write a record of agent id a
WritesOf(iss, a) ==
  Cardinality({i \in 1..Len(iss) :
                 iss[i].op \in AgentWriteOps /\ a \in iss[i].ids})

Min(a, b) == IF a < b THEN a ELSE b

\* an operation other than updateCurrentAgent ran
WinOther(iss) ==
  IF saveTimer
    THEN [win EXCEPT !.pure = FALSE,
                     !.writes = Min(2, @ + WritesOf(iss, win.agent))]
    ELSE NoWin

\* the timer fired or was cleared
WinClose(iss) ==
  IF saveTimer
    THEN [win EXCEPT !.open = FALSE,
                     !.writes = Min(2, @ + WritesOf(iss, win.agent))]
    ELSE NoWin

\* the in-memory states of every object, extended by the states in h that
\* differ from the object's last one
Extend(hs, h) ==
  [id \in DOMAIN hs \cup DOMAIN h |->
     IF id \notin DOMAIN h THEN hs[id]
     ELSE IF id \notin DOMAIN hs THEN <<h[id]>>
     ELSE IF hs[id][Len(hs[id])] = h[id] THEN hs[id]
     ELSE Append(hs[id], h[id])]

\* the place in the agent's history of the state a put() cloned: the latest
\* in-memory state equal to the record (0: the agent never was in this state)
Stamp(hs, rec) ==
  IF rec.id \in DOMAIN hs
    THEN SetMax({i \in 1..Len(hs[rec.id]) : hs[rec.id][i] = rec})
    ELSE 0

StampTx(hs, tx) ==
  [puts |-> [i \in 1..Len(tx.puts) |->
               [rec |-> tx.puts[i], rev |-> Stamp(hs, tx.puts[i])]],
   dels |-> tx.dels, whole |-> tx.whole, awaited |-> tx.awaited]

RECURSIVE PutStamped(_, _)
PutStamped(d, puts) ==
  IF puts = <<>> THEN d
  ELSE PutStamped([i \in DOMAIN d \cup {Head(puts).rec.id} |->
                     IF i = Head(puts).rec.id THEN Head(puts) ELSE d[i]],
                  Tail(puts))

\* the durable records after a write has completed
ApplyTx(d, tx) ==
  PutStamped(IF tx.whole THEN [k \in {} |-> Null]
             ELSE [i \in DOMAIN d \ tx.dels |-> d[i]],
             tx.puts)

\* the writes of one operation: those it waited for (and the synchronous
\* localStorage writes) are complete when it returns, the others are in flight
RECURSIVE Settle(_, _)
Settle(D, txs) ==
  IF txs = <<>> THEN D
  ELSE Settle(IF Head(txs).awaited
                THEN [D EXCEPT !.disk = ApplyTx(@, Head(txs))]
                ELSE [D EXCEPT !.inflight = Append(@, Head(txs))],
              Tail(txs))

\* the durable media the calls write to
MediaOf(iss) ==
  {"agents" : i \in {j \in 1..Len(iss) :
       iss[j].op \in {"saveAgent", "saveAgentsBatch", "deleteAgent"}}}
  \cup {"meta" : i \in {j \in 1..Len(iss) :
            iss[j].op \in {"saveMeta", "saveMetaBatch"}}}
  \cup {"ls" : i \in {j \in 1..Len(iss) : iss[j].op = "legacySave"}}

\* the media on which the operation's writes can fail: an IndexedDB
\* transaction error rejects the promise, which .catch(logError) takes; a
\* localStorage exception is taken by the try / catch of legacySave
FailureChoices(S, pre) ==
  IF audit /\ faults + (IF pre = {} THEN 0 ELSE 1) < MaxFaults
    THEN SUBSET MediaOf(S.issued)
    ELSE {{}}

\* the agents and currentId of a module state, as records
MemoryOf(M) ==
  [agents |-> RecordsOf(M.agents, M.heap), currentId |-> M.currentId]

\* The operation's results become the module state and the durable state.
\* B is the durable state before the operation's fire-and-forget writes, S
\* the one after them, Mok the module state had every write succeeded, pre
\* the awaited writes that failed before.
CommitAs(B, S, M, Mok, pre) ==
  /\ heap' = M.heap
  /\ agents' = M.agents
  /\ currentId' = M.currentId
  /\ \E failed \in FailureChoices(S, pre) :
       /\ dbAgents' = IF "agents" \in failed THEN B.db ELSE S.db
       /\ dbMeta' = IF "meta" \in failed THEN B.meta ELSE S.meta
       /\ lsBlob' = IF "ls" \in failed THEN B.ls ELSE S.ls
       /\ lastFailed' = IF audit THEN pre \cup failed ELSE lastFailed
       /\ faults' = IF pre \cup failed = {} THEN faults ELSE faults + 1
  /\ audit' = audit
  /\ lastIssued' = IF audit THEN S.issued ELSE lastIssued
  /\ okMem' = IF audit THEN MemoryOf(Mok) ELSE okMem
  /\ UNCHANGED sret
  /\ handed' = S.handed
  /\ lag' = lag
  /\ IF lag
       THEN LET hs == Extend(hist, M.heap)
                D  == Settle([disk |-> disk, inflight |-> inflight],
                             [i \in 1..Len(S.txs) |-> StampTx(hs, S.txs[i])])
            IN /\ hist' = hs
               /\ disk' = D.disk
               /\ inflight' = D.inflight
       ELSE UNCHANGED <<hist, inflight, disk>>

Commit(S, M) == CommitAs(Durable, S, M, M, {})

Here == Mem(heap, agents, currentId)

\* a call of an exported operation or of the teardown hook; the generation
\* request is not touched
CalledWith(op, id) ==
  /\ ops < (IF audit THEN MaxStoreOps ELSE MaxOps)
  /\ ops' = ops + 1
  /\ lastOp' = IF audit THEN op ELSE lastOp
  /\ lastArg' = IF audit THEN id ELSE lastArg
  /\ UNCHANGED <<relayVars, proxyVars, appVars>>

Called(op) == CalledWith(op, Null)

(***************************************************************************)
(* state.js: public API                                                    *)
(***************************************************************************)
\* heap extended with (or overwritten at) one object
WithObj(h, rec) == DbPut(h, rec)

\* getCurrentAgent(): agents.find(a => a.id === currentId) || agents[0]
getCurrentAgent ==
  LET i == FindIndex(agents, heap, currentId)
  IN IF i # 0 THEN agents[i]
     ELSE IF Len(agents) > 0 THEN agents[1] ELSE Null

\* the ensure-one block in a variant that corrects a dangling current id
\* in memory only
EnsureOne_CorrectionNotPersisted(S, M) ==
  IF Len(M.agents) = 0
    THEN LET agent == makeAgent("Agent 1")
             M2 == [M EXCEPT !.heap = WithObj(@, agent),
                             !.agents = <<agent.id>>,
                             !.currentId = agent.id]
         IN [S |-> persistAll(S, M2), M |-> M2]
  ELSE IF FindIndex(M.agents, M.heap, M.currentId) = 0
    THEN [S |-> S, M |-> [M EXCEPT !.currentId = M.heap[M.agents[1]].id]]
  ELSE [S |-> S, M |-> M]

\* Ensure at least one agent (end of init)
EnsureOne(S, M) ==
  IF Len(M.agents) = 0
    THEN LET agent == makeAgent("Agent 1")
             M2 == [M EXCEPT !.heap = WithObj(@, agent),
                             !.agents = <<agent.id>>,
                             !.currentId = agent.id]
         IN [S |-> persistAll(S, M2), M |-> M2]
  ELSE IF FindIndex(M.agents, M.heap, M.currentId) = 0
    THEN LET M2 == [M EXCEPT !.currentId = M.heap[M.agents[1]].id]
         IN [S |-> persistMeta(S, M2), M |-> M2]
  ELSE [S |-> S, M |-> M]

\* the objects of a list of loaded records, by id
Objects(recs) == DbPutAll([k \in {} |-> Null], recs)

\* storage.js hasLegacyData()
hasLegacyData(ls) == ls.present

\* legacyLoad() in a variant that loads nothing
legacyLoad_Skipped(ls) == [agents |-> <<>>, currentId |-> Null]

\* state.js legacyLoad(): a blob that does not parse is ignored
legacyLoad(ls) ==
  IF ls.present /\ ls.valid
    THEN [agents |-> ls.agents, currentId |-> ls.currentId]
    ELSE [agents |-> <<>>, currentId |-> Null]

\* the writes of a migration that can fail, for the blob it finds
MigrationOutcomes(ls) ==
  {"ok"} \cup (IF ls.present /\ ls.valid
                THEN {"meta"} \cup (IF Len(ls.agents) > 0 THEN {"agents"}
                                    ELSE {})
                ELSE {})

\* the migration of a parsed blob in a variant that removes the blob before
\* it writes the meta entries
MigrateParsed_RemovesFirst(S, outcome) ==
  LET recs == S.ls.agents
      cur  == S.ls.currentId
      S1   == IF Len(recs) > 0
                THEN [S EXCEPT !.db = DbPutAll(@, recs),
                               !.handed = Hand(@, recs),
                               !.txs = Append(@, Tx(recs, {}, FALSE, TRUE))]
                ELSE S
      S2   == [S1 EXCEPT
                 !.meta = MetaPut(MetaPut(@, "currentId", cur), "agentOrder",
                                  [i \in 1..Len(recs) |-> recs[i].id]),
                 !.ls = NoBlob]
  IN IF outcome = "agents" /\ Len(recs) > 0
       THEN [S |-> S, agents |-> <<>>, currentId |-> Null, threw |-> TRUE]
     ELSE IF outcome = "meta"
       THEN [S |-> [S1 EXCEPT !.ls = NoBlob], agents |-> <<>>, currentId |-> Null,
             threw |-> TRUE]
     ELSE [S |-> S2, agents |-> recs, currentId |-> cur, threw |-> FALSE]

\* the migration of a parsed blob in a variant without the final removeItem
MigrateParsed_KeepsBlob(S, outcome) ==
  LET recs == S.ls.agents
      cur  == S.ls.currentId
      S1   == IF Len(recs) > 0
                THEN [S EXCEPT !.db = DbPutAll(@, recs),
                               !.handed = Hand(@, recs),
                               !.txs = Append(@, Tx(recs, {}, FALSE, TRUE))]
                ELSE S
      S2   == [S1 EXCEPT
                 !.meta = MetaPut(MetaPut(@, "currentId", cur), "agentOrder",
                                  [i \in 1..Len(recs) |-> recs[i].id])]
  IN IF outcome = "agents" /\ Len(recs) > 0
       THEN [S |-> S, agents |-> <<>>, currentId |-> Null, threw |-> TRUE]
     ELSE IF outcome = "meta"
       THEN [S |-> S1, agents |-> <<>>, currentId |-> Null,
             threw |-> TRUE]
     ELSE [S |-> S2, agents |-> recs, currentId |-> cur, threw |-> FALSE]

\* migrateFromLocalStorage() from "const agents = data.agents || []" on:
\* the agents write (if there are agents), the meta write, then the removal
\* of the blob. outcome: "ok", or the awaited write whose transaction fails
\* ("agents", "meta"); the function then rejects.
MigrateParsed(S, outcome) ==
  LET recs == S.ls.agents
      cur  == S.ls.currentId
      S1   == IF Len(recs) > 0
                THEN [S EXCEPT !.db = DbPutAll(@, recs),
                               !.handed = Hand(@, recs),
                               !.txs = Append(@, Tx(recs, {}, FALSE, TRUE))]
                ELSE S
      S2   == [S1 EXCEPT
                 !.meta = MetaPut(MetaPut(@, "currentId", cur), "agentOrder",
                                  [i \in 1..Len(recs) |-> recs[i].id]),
                 !.ls = NoBlob]
  IN IF outcome = "agents" /\ Len(recs) > 0
       THEN [S |-> S, agents |-> <<>>, currentId |-> Null, threw |-> TRUE]
     ELSE IF outcome = "meta"
       THEN [S |-> S1, agents |-> <<>>, currentId |-> Null,
             threw |-> TRUE]
     ELSE [S |-> S2, agents |-> recs, currentId |-> cur, threw |-> FALSE]

\* migrateFromLocalStorage() in a variant that leaves a blob that does not
\* parse where it is
migrateFromLocalStorage_KeepsCorrupt(S, outcome) ==
  IF ~S.ls.present \/ ~S.ls.valid
    THEN [S |-> S, agents |-> <<>>, currentId |-> Null, threw |-> FALSE]
  ELSE MigrateParsed(S, outcome)

\* storage.js migrateFromLocalStorage(): the stores after it, its result,
\* and whether it rejected
migrateFromLocalStorage(S, outcome) ==
  IF ~S.ls.present
    THEN [S |-> S, agents |-> <<>>, currentId |-> Null, threw |-> FALSE]
  ELSE IF ~S.ls.valid
    THEN \* JSON.parse throws: localStorage.removeItem(LEGACY_KEY)
         [S |-> [S EXCEPT !.ls = NoBlob], agents |-> <<>>,
          currentId |-> Null, threw |-> FALSE]
  ELSE MigrateParsed(S, outcome)

\* the try block of init(): migrate or load; a rejection is caught, sets
\* fallbackToLocalStorage and calls legacyLoad(); then the ensure-one block
InitLoaded(outcome) ==
  LET tried == IF hasLegacyData(lsBlob)
                 THEN migrateFromLocalStorage(Durable, outcome)
                 ELSE [S |-> Durable,
                       agents |-> RecordsOf(loadAllAgents(dbAgents, dbMeta),
                                            dbAgents),
                       currentId |-> loadCurrentId(dbMeta),
                       threw |-> FALSE]
      got == IF tried.threw THEN legacyLoad(tried.S.ls)
             ELSE [agents |-> tried.agents, currentId |-> tried.currentId]
      M0 == [heap |-> Objects(got.agents),
             agents |-> [i \in 1..Len(got.agents) |-> got.agents[i].id],
             currentId |-> got.currentId,
             fb |-> tried.threw]
      B == [tried.S EXCEPT !.handed = Hand(@, got.agents)]
      R == EnsureOne(B, M0)
  IN [B |-> B, S |-> R.S, M |-> R.M, fb |-> tried.threw]

\* init(), IndexedDB available
InitOk ==
  /\ Called("init")
  /\ ~initDone
  /\ \E outcome \in (IF audit /\ faults < MaxFaults
                        THEN MigrationOutcomes(lsBlob) ELSE {"ok"}) :
       LET R == InitLoaded(outcome)
       IN /\ CommitAs(R.B, R.S, R.M, InitLoaded("ok").M,
                      IF outcome = "ok" THEN {} ELSE {"migrate-" \o outcome})
          /\ fallbackToLocalStorage' = R.fb
  /\ initDone' = TRUE
  /\ UNCHANGED <<saveTimer, pendingAgent, deleted, win>>

\* init(), storage.open() rejects (or, with no legacy blob, a load
\* rejects): catch, fallbackToLocalStorage = true, legacyLoad()
InitFallback ==
  /\ Called("init")
  /\ ~initDone
  /\ LET got == legacyLoad(lsBlob)
          M0 == [heap |-> Objects(got.agents),
                 agents |-> [i \in 1..Len(got.agents) |-> got.agents[i].id],
                 currentId |-> got.currentId,
                 fb |-> TRUE]
          R == EnsureOne([Durable EXCEPT !.handed = Hand(@, got.agents)], M0)
     IN Commit(R.S, R.M)
  /\ initDone' = TRUE
  /\ fallbackToLocalStorage' = TRUE
  /\ UNCHANGED <<saveTimer, pendingAgent, deleted, win>>

\* arrays a caller can build from getAgents(): its elements, reordered or
\* filtered
RECURSIVE Arrangements(_)
Arrangements(idset) ==
  {<<>>} \cup UNION {{<<x>> \o t : t \in Arrangements(idset \ {x})} : x \in idset}

\* createAgent(name) in a variant without "currentId = agent.id"
createAgent_KeepsCurrent(name) ==
  /\ Called("createAgent")
  /\ initDone
  /\ CanAlloc
  /\ LET n == Len(agents) + 1
          agent == makeAgent(IF name = "" THEN "Agent " \o ToString(n) ELSE name)
          M == Mem(WithObj(heap, agent), Append(agents, agent.id), currentId)
          S == persistMeta(persistAgent(Durable, M, agent.id), M)
     IN /\ Commit(S, M)
        /\ win' = WinOther(S.issued)
  /\ UNCHANGED <<initDone, fallbackToLocalStorage, saveTimer, pendingAgent,
                 deleted>>

\* createAgent(name); name = "" stands for an omitted argument
createAgent(name) ==
  /\ Called("createAgent")
  /\ initDone
  /\ CanAlloc
  /\ LET n == Len(agents) + 1
          agent == makeAgent(IF name = "" THEN "Agent " \o ToString(n) ELSE name)
          M == Mem(WithObj(heap, agent), Append(agents, agent.id), agent.id)
          S == persistMeta(persistAgent(Durable, M, agent.id), M)
     IN /\ Commit(S, M)
        /\ win' = WinOther(S.issued)
  /\ UNCHANGED <<initDone, fallbackToLocalStorage, saveTimer, pendingAgent,
                 deleted>>

\* saveAgents(updated)
saveAgents(updated) ==
  /\ Called("saveAgents")
  /\ initDone
  /\ updated \in Arrangements(Range(agents))
  /\ LET M == Mem(heap, updated, currentId)
          S == persistAll(Durable, M)
     IN /\ Commit(S, M)
        /\ win' = WinOther(S.issued)
  /\ UNCHANGED <<initDone, fallbackToLocalStorage, saveTimer, pendingAgent,
                 deleted>>

\* setCurrentAgent(id) in a variant without the agents.find guard
setCurrentAgent_AnyId(id) ==
  /\ CalledWith("setCurrentAgent", id)
  /\ initDone
  /\ LET M == Mem(heap, agents, id)
         S == IF fallbackToLocalStorage THEN legacySave(Durable, M)
              ELSE saveMeta(Durable, "currentId", id)
     IN /\ Commit(S, M)
        /\ win' = WinOther(S.issued)
  /\ UNCHANGED <<initDone, fallbackToLocalStorage, saveTimer, pendingAgent,
                 deleted>>

\* setCurrentAgent(id)
setCurrentAgent(id) ==
  /\ CalledWith("setCurrentAgent", id)
  /\ initDone
  /\ IF FindIndex(agents, heap, id) # 0
       THEN LET M == Mem(heap, agents, id)
                S == IF fallbackToLocalStorage THEN legacySave(Durable, M)
                     ELSE saveMeta(Durable, "currentId", id)
            IN /\ Commit(S, M)
               /\ win' = WinOther(S.issued)
       ELSE /\ Commit(Durable, Here)
            /\ win' = WinOther(<<>>)
  /\ UNCHANGED <<initDone, fallbackToLocalStorage, saveTimer, pendingAgent,
                 deleted>>

\* updateCurrentAgent(patch)
updateCurrentAgent(patch) ==
  /\ Called("updateCurrentAgent")
  /\ initDone
  /\ LET agent == getCurrentAgent
     IN IF agent = Null
          THEN /\ Commit(Durable, Here)
               /\ win' = WinOther(<<>>)
               /\ UNCHANGED <<saveTimer, pendingAgent>>
          ELSE /\ Commit(Durable,
                         Mem(WithObj(heap, ObjectAssign(heap[agent], patch)),
                             agents, currentId))
               /\ pendingAgent' = agent
               /\ saveTimer' = TRUE          \* armed unless already armed
               /\ win' = IF ~saveTimer
                           THEN [agent |-> agent, open |-> TRUE, pure |-> TRUE,
                                 writes |-> 0,
                                 fields |-> Merge(NoFields, patch)]
                         ELSE IF win.agent = agent
                           THEN [win EXCEPT !.fields = Merge(@, patch)]
                         ELSE [win EXCEPT !.pure = FALSE]
  /\ UNCHANGED <<initDone, fallbackToLocalStorage, deleted>>

\* if (pendingAgent) { persistAgent(pendingAgent); pendingAgent = null; }
\* in a variant that drops the pending slot before writing it
writePending_Dropped(S, M) == S

\* if (pendingAgent) { persistAgent(pendingAgent); pendingAgent = null; }
writePending(S, M) ==
  IF pendingAgent # Null THEN persistAgent(S, M, pendingAgent) ELSE S

\* the setTimeout callback armed by updateCurrentAgent (300 ms elapsed)
TimerFire ==
  /\ saveTimer
  /\ lastOp' = IF audit THEN "timer" ELSE lastOp
  /\ lastArg' = IF audit THEN Null ELSE lastArg
  /\ UNCHANGED <<ops, relayVars, proxyVars, appVars>>
  /\ LET S == writePending(Durable, Here)
     IN /\ Commit(S, Here)
        /\ win' = WinClose(S.issued)
  /\ pendingAgent' = Null
  /\ saveTimer' = FALSE
  /\ UNCHANGED <<initDone, fallbackToLocalStorage, deleted>>

\* flushPendingWrite(), the beforeunload listener registered by init
flushPendingWrite ==
  /\ Called("flushPendingWrite")
  /\ initDone
  /\ LET S == writePending(Durable, Here)
     IN /\ Commit(S, Here)
        /\ win' = WinClose(S.issued)
  /\ pendingAgent' = Null
  /\ saveTimer' = FALSE
  /\ UNCHANGED <<initDone, fallbackToLocalStorage, deleted>>

\* agents.splice(idx, 1)
Splice(list, idx) ==
  [i \in 1..(Len(list) - 1) |-> IF i < idx THEN list[i] ELSE list[i + 1]]

\* deleteAgent(id) for the agent at index idx, in a variant without the
\* "if (agents.length === 0)" block
deleteKnown_NoRefill(id, idx) ==
  LET rest == Splice(agents, idx)
      cur1 == IF currentId = id
                THEN IF Len(rest) > 0 THEN heap[rest[1]].id ELSE Null
                ELSE currentId
      M == Mem(heap, rest, cur1)
  IN [S |-> persistMeta(persistDelete(Durable, M, id), M), M |-> M]

\* deleteAgent(id) for the agent at index idx, in a variant without the
\* "if (currentId === id)" block
deleteKnown_KeepsCurrent(id, idx) ==
  LET rest == Splice(agents, idx)
      agent == makeAgent("Agent 1")
      M == IF Len(rest) = 0
             THEN Mem(WithObj(heap, agent), <<agent.id>>, agent.id)
             ELSE Mem(heap, rest, currentId)
      S1 == IF Len(rest) = 0
              THEN persistAgent(Durable, M, agent.id)
              ELSE Durable
  IN [S |-> persistMeta(persistDelete(S1, M, id), M), M |-> M]

\* deleteAgent(id) for the agent at index idx: the module state and the
\* durable state it leaves
deleteKnown(id, idx) ==
  LET rest == Splice(agents, idx)
      cur1 == IF currentId = id
                THEN IF Len(rest) > 0 THEN heap[rest[1]].id ELSE Null
                ELSE currentId
      agent == makeAgent("Agent 1")
      M == IF Len(rest) = 0
             THEN Mem(WithObj(heap, agent), <<agent.id>>, agent.id)
             ELSE Mem(heap, rest, cur1)
      S1 == IF Len(rest) = 0
              THEN persistAgent(Durable, M, agent.id)
              ELSE Durable
  IN [S |-> persistMeta(persistDelete(S1, M, id), M), M |-> M]

\* deleteAgent(id)
deleteAgent(id) ==
  /\ CalledWith("deleteAgent", id)
  /\ initDone
  /\ LET idx == FindIndex(agents, heap, id)
     IN IF idx = 0
          THEN /\ Commit(Durable, Here)
               /\ win' = WinOther(<<>>)
               /\ UNCHANGED deleted
          ELSE LET R == deleteKnown(id, idx)
               IN /\ Len(agents) = 1 => CanAlloc
                  /\ Commit(R.S, R.M)
                  /\ win' = WinOther(R.S.issued)
                  /\ deleted' = deleted \cup {id}
  /\ UNCHANGED <<initDone, fallbackToLocalStorage, saveTimer, pendingAgent>>

\* duplicateAgent(id)
duplicateAgent(id) ==
  /\ CalledWith("duplicateAgent", id)
  /\ initDone
  /\ LET idx == FindIndex(agents, heap, id)
     IN IF idx = 0
          THEN /\ Commit(Durable, Here)
               /\ win' = WinOther(<<>>)
          ELSE LET src == heap[agents[idx]]
                   copy == [makeAgent(src.name \o " (copy)") EXCEPT
                              !.model = src.model,
                              !.systemPrompt = src.systemPrompt,
                              !.messages = src.messages]
                   M == Mem(WithObj(heap, copy), Append(agents, copy.id), copy.id)
                   S == persistMeta(persistAgent(Durable, M, copy.id), M)
               IN /\ CanAlloc
                  /\ Commit(S, M)
                  /\ win' = WinOther(S.issued)
  /\ UNCHANGED <<initDone, fallbackToLocalStorage, saveTimer, pendingAgent,
                 deleted>>

\* renameAgent(id, name) in a variant that leaves the write to the debounce
\* timer, as updateCurrentAgent does
renameAgent_Debounced(id, name) ==
  /\ CalledWith("renameAgent", id)
  /\ initDone
  /\ LET idx == FindIndex(agents, heap, id)
     IN IF idx = 0
          THEN /\ Commit(Durable, Here)
               /\ win' = WinOther(<<>>)
               /\ UNCHANGED <<saveTimer, pendingAgent>>
          ELSE /\ Commit(Durable,
                         Mem(WithObj(heap, [heap[agents[idx]] EXCEPT !.name = name]),
                             agents, currentId))
               /\ win' = WinOther(<<>>)
               /\ pendingAgent' = agents[idx]
               /\ saveTimer' = TRUE
  /\ UNCHANGED <<initDone, fallbackToLocalStorage, deleted>>

\* renameAgent(id, name)
renameAgent(id, name) ==
  /\ CalledWith("renameAgent", id)
  /\ initDone
  /\ LET idx == FindIndex(agents, heap, id)
     IN IF idx = 0
          THEN /\ Commit(Durable, Here)
               /\ win' = WinOther(<<>>)
          ELSE LET M == Mem(WithObj(heap, [heap[agents[idx]] EXCEPT !.name = name]),
                            agents, currentId)
                   S == persistAgent(Durable, M, agents[idx])
               IN /\ Commit(S, M)
                  /\ win' = WinOther(S.issued)
  /\ UNCHANGED <<initDone, fallbackToLocalStorage, saveTimer, pendingAgent,
                 deleted>>

(***************************************************************************)
(* The State Manager as a state machine                                    *)
(***************************************************************************)
NoRequest == [mode |-> "proxied", hasKey |-> TRUE, status |-> "ok",
              body |-> <<>>]

StoredAgent(i, nm) ==
  [id |-> i, name |-> nm, model |-> "", systemPrompt |-> "", messages |-> <<>>]

\* what the browser holds when the page loads
InitialStorage ==
  { [db |-> [k \in {} |-> Null], meta |-> NoMeta, ls |-> NoBlob],
    [db |-> [k \in {} |-> Null], meta |-> NoMeta,
     ls |-> [present |-> TRUE, valid |-> TRUE,
             agents |-> <<StoredAgent(1, "Agent 1")>>,
             currentId |-> 1]] }

\* inputs of the operations
Patches == { [model |-> "m1"], [model |-> "m2", systemPrompt |-> "p1"] }
CreateNames == {"", "X"}
RenameNames == {"X"}

\* the storage layer was not called directly
NoStorageCall == [op |-> "", agents |-> <<>>, currentId |-> Null,
                  threw |-> FALSE, n |-> 0]

\* nothing has run yet
AuditIdle ==
  /\ lastOp = ""
  /\ lastArg = Null
  /\ lastIssued = <<>>
  /\ lastFailed = {}
  /\ okMem = [agents |-> <<>>, currentId |-> Null]
  /\ faults = 0
  /\ sret = NoStorageCall

\* the proxy has received no request
NoHttpRequest == [payload |-> "object", messages |-> "ok", xApiKey |-> "",
                  envKey |-> "", status |-> "ok", body |-> <<>>]

ProxyIdle ==
  /\ hpos = "idle"
  /\ resStatus = 0
  /\ resBody = ""
  /\ frames = <<>>
  /\ resEnded = FALSE
  /\ upKey = ""
  /\ upAborted = FALSE
  /\ usent = 0
  /\ uclosed = FALSE
  /\ uqueue = <<>>
  /\ srvBuffer = <<>>
  /\ srvFullText = ""
  /\ srvAborted = FALSE
  /\ clientClosed = FALSE
  /\ configRes = <<>>

\* no generation has been started by the page
NoGen == [agent |-> Null, index |-> 0, text |-> "", phase |-> "none", cbs |-> 0]

\* the page is not part of the run
AppIdle ==
  /\ appPos = "off"
  /\ sharing = {}
  /\ gen = NoGen
  /\ appEvents = 0
  /\ later = FALSE

\* no generation request has been made
RelayIdle ==
  /\ rpc = "idle"
  /\ sent = 0
  /\ closed = FALSE
  /\ queue = <<>>
  /\ buffer = <<>>
  /\ relayText = ""
  /\ aborted = FALSE
  /\ calls = <<>>
  /\ streaming = FALSE
  /\ doneFired = FALSE
  /\ doneEffects = 0
  /\ appText = ""
  /\ content = ""

InitSM ==
  /\ initDone = FALSE
  /\ heap = [k \in {} |-> Null]
  /\ agents = <<>>
  /\ currentId = Null
  /\ fallbackToLocalStorage = FALSE
  /\ saveTimer = FALSE
  /\ pendingAgent = Null
  /\ \E st \in InitialStorage :
       /\ dbAgents = st.db
       /\ dbMeta = st.meta
       /\ lsBlob = st.ls
  /\ handed = [k \in {} |-> Null]
  /\ deleted = {}
  /\ win = NoWin
  /\ ops = 0
  /\ lag = FALSE
  /\ hist = [k \in {} |-> Null]
  /\ inflight = <<>>
  /\ disk = [k \in {} |-> Null]
  /\ audit = FALSE
  /\ AuditIdle
  /\ req = NoRequest
  /\ RelayIdle
  /\ hreq = NoHttpRequest
  /\ ProxyIdle
  /\ AppIdle

NextSM ==
  \/ InitOk
  \/ InitFallback
  \/ \E name \in CreateNames : createAgent(name)
  \/ \E updated \in Arrangements(Ids) : saveAgents(updated)
  \/ \E id \in Ids : setCurrentAgent(id)
  \/ \E patch \in Patches : updateCurrentAgent(patch)
  \/ TimerFire
  \/ flushPendingWrite
  \/ \E id \in Ids : deleteAgent(id)
  \/ \E id \in Ids : duplicateAgent(id)
  \/ \E id \in Ids, name \in RenameNames : renameAgent(id, name)

SpecSM == InitSM /\ [][NextSM]_vars

(***************************************************************************)
(* The State Manager over the stored data a page can find (SpecStore)      *)
(***************************************************************************)
\* what the browser can hold when the page loads: nothing; a legacy blob; a
\* legacy blob that does not parse; a store written by an earlier session;
\* a store whose remembered current id is of an agent that is gone; a store
\* written by an earlier session together with the blob that a session
\* without IndexedDB (fallback mode) wrote after it
StoreStates ==
  InitialStorage \cup
  { [db |-> [k \in {} |-> Null], meta |-> NoMeta, ls |-> CorruptBlob],
    [db |-> DbPutAll([k \in {} |-> Null],
                     <<StoredAgent(1, "Agent 1"), StoredAgent(2, "X")>>),
     meta |-> MetaPut(MetaPut(NoMeta, "currentId", 2), "agentOrder", <<2, 1>>),
     ls |-> NoBlob],
    [db |-> DbPutAll([k \in {} |-> Null],
                     <<StoredAgent(1, "Agent 1"), StoredAgent(2, "X")>>),
     meta |-> MetaPut(MetaPut(NoMeta, "currentId", 3), "agentOrder",
                      <<1, 2, 3>>),
     ls |-> NoBlob],
    [db |-> DbPutAll([k \in {} |-> Null],
                     <<StoredAgent(1, "Agent 1"), StoredAgent(2, "X")>>),
     meta |-> MetaPut(MetaPut(NoMeta, "currentId", 2), "agentOrder", <<2, 1>>),
     ls |-> [present |-> TRUE, valid |-> TRUE,
             agents |-> <<StoredAgent(3, "Agent 1")>>,
             currentId |-> 3]] }

InitStore ==
  /\ initDone = FALSE
  /\ heap = [k \in {} |-> Null]
  /\ agents = <<>>
  /\ currentId = Null
  /\ fallbackToLocalStorage = FALSE
  /\ saveTimer = FALSE
  /\ pendingAgent = Null
  /\ \E st \in StoreStates :
       /\ dbAgents = st.db
       /\ dbMeta = st.meta
       /\ lsBlob = st.ls
  /\ handed = [k \in {} |-> Null]
  /\ deleted = {}
  /\ win = NoWin
  /\ ops = 0
  /\ lag = FALSE
  /\ hist = [k \in {} |-> Null]
  /\ inflight = <<>>
  /\ disk = [k \in {} |-> Null]
  /\ audit = TRUE
  /\ AuditIdle
  /\ req = NoRequest
  /\ RelayIdle
  /\ hreq = NoHttpRequest
  /\ ProxyIdle
  /\ AppIdle

SpecStore == InitStore /\ [][NextSM]_vars

(***************************************************************************)
(* The storage layer called directly (SpecStorage)                         *)
(***************************************************************************)
\* stores an earlier session can have left: any of the agents, with or
\* without the meta entries, agentOrder possibly out of date with the
\* agents (the agents and the meta entries are written by separate
\* transactions), and any of the legacy blobs
StoredSets == SUBSET {StoredAgent(i, "X") : i \in Ids}
StoredMetas ==
  {NoMeta} \cup
  {MetaPut(MetaPut(NoMeta, "currentId", 1), "agentOrder", o) :
     o \in Arrangements(Ids)}
StoredBlobs ==
  { NoBlob, CorruptBlob,
    [present |-> TRUE, valid |-> TRUE,
     agents |-> <<StoredAgent(1, "Agent 1")>>, currentId |-> 1],
    [present |-> TRUE, valid |-> TRUE,
     agents |-> <<StoredAgent(2, "B"), StoredAgent(1, "Agent 1")>>,
     currentId |-> 2] }

\* the store holding a set of records
StoreOf(recs) ==
  [i \in {r.id : r \in recs} |-> CHOOSE r \in recs : r.id = i]

StorageInputs ==
  {[db |-> StoreOf(rs), meta |-> m, ls |-> b] :
     rs \in StoredSets, m \in StoredMetas, b \in StoredBlobs}

\* await storage.migrateFromLocalStorage()
StorageMigrate(outcome) ==
  /\ sret.n < MaxStorageCalls
  /\ outcome \in MigrationOutcomes(lsBlob)
  /\ LET R == migrateFromLocalStorage(Durable, outcome)
     IN /\ dbAgents' = R.S.db
        /\ dbMeta' = R.S.meta
        /\ lsBlob' = R.S.ls
        /\ sret' = [op |-> "migrateFromLocalStorage", agents |-> R.agents,
                    currentId |-> R.currentId, threw |-> R.threw,
                    n |-> sret.n + 1]
  /\ UNCHANGED <<initDone, heap, agents, currentId, fallbackToLocalStorage,
                 saveTimer, pendingAgent, handed, deleted, win, ops, lag,
                 hist, inflight, disk, audit, lastOp, lastArg, lastIssued, lastFailed,
                 okMem, faults>>
  /\ UNCHANGED <<relayVars, proxyVars, appVars>>

\* await storage.loadAllAgents()
StorageLoadAll ==
  /\ sret.n < MaxStorageCalls
  /\ sret' = [op |-> "loadAllAgents",
              agents |-> RecordsOf(loadAllAgents(dbAgents, dbMeta), dbAgents),
              currentId |-> Null, threw |-> FALSE, n |-> sret.n + 1]
  /\ UNCHANGED <<initDone, heap, agents, currentId, fallbackToLocalStorage,
                 saveTimer, pendingAgent, dbAgents, dbMeta, lsBlob, handed,
                 deleted, win, ops, lag, hist, inflight, disk, audit, lastOp,
                 lastArg, lastIssued, lastFailed, okMem, faults>>
  /\ UNCHANGED <<relayVars, proxyVars, appVars>>

InitStorage ==
  /\ initDone = FALSE
  /\ heap = [k \in {} |-> Null]
  /\ agents = <<>>
  /\ currentId = Null
  /\ fallbackToLocalStorage = FALSE
  /\ saveTimer = FALSE
  /\ pendingAgent = Null
  /\ \E st \in StorageInputs :
       /\ dbAgents = st.db
       /\ dbMeta = st.meta
       /\ lsBlob = st.ls
  /\ handed = [k \in {} |-> Null]
  /\ deleted = {}
  /\ win = NoWin
  /\ ops = 0
  /\ lag = FALSE
  /\ hist = [k \in {} |-> Null]
  /\ inflight = <<>>
  /\ disk = [k \in {} |-> Null]
  /\ audit = FALSE
  /\ AuditIdle
  /\ req = NoRequest
  /\ RelayIdle
  /\ hreq = NoHttpRequest
  /\ ProxyIdle
  /\ AppIdle

NextStorage ==
  \/ \E outcome \in {"ok", "agents", "meta"} : StorageMigrate(outcome)
  \/ StorageLoadAll

SpecStorage == InitStorage /\ [][NextStorage]_vars

(***************************************************************************)
(* Properties of the State Manager (SpecSM)                                *)
(***************************************************************************)
ListedIds == Range(IdsOf(agents, heap))
BlobIds == {lsBlob.agents[i].id : i \in 1..Len(lsBlob.agents)}

\* no debounced write is outstanding
DebounceIdle == ~saveTimer /\ pendingAgent = Null

\* C1: no debounced edit is lost: whenever the debounce timer has fired (or
\* the pending write was flushed) and nothing is pending, the state of every
\* listed agent is the state last handed to a durable write of that agent,
\* whatever operations ran between a patch and the timer expiry.
C1_NoDebouncedEditLost ==
  (initDone /\ DebounceIdle) =>
     \A r \in Range(agents) :
        heap[r].id \in DOMAIN handed /\ handed[heap[r].id] = heap[r]

\* C2: deleted is terminal: an id removed by deleteAgent is neither in the
\* durable agents collection (IndexedDB store or fallback blob) nor in the
\* in-memory list, in any later state.
C2_DeletedIsTerminal ==
  \A d \in deleted :
     /\ d \notin DOMAIN dbAgents
     /\ d \notin BlobIds
     /\ d \notin ListedIds

\* C3: at least one agent exists in every state after init() resolved.
C3_AtLeastOneAgent == initDone => Len(agents) >= 1

\* C4: after init() resolved, currentId is the id of a listed agent, so
\* getCurrentId() and getCurrentAgent().id agree.
C4_CurrentIsListed ==
  initDone =>
     /\ currentId \in ListedIds
     /\ getCurrentAgent # Null
     /\ heap[getCurrentAgent].id = currentId

\* C5: deleting the only remaining agent leaves exactly one agent, a fresh
\* empty one named "Agent 1" with an id no earlier object had, and it is
\* current; the state after the call never shows zero agents or a null
\* currentId.
C5_DeleteLastRefills ==
  [][ (initDone /\ Len(agents) = 1 /\ deleted' # deleted) =>
        /\ Len(agents') = 1
        /\ currentId' # Null
        /\ agents'[1] \notin DOMAIN heap
        /\ heap'[agents'[1]].id \notin {heap[r].id : r \in DOMAIN heap}
        /\ heap'[agents'[1]] =
             [id |-> heap'[agents'[1]].id, name |-> "Agent 1", model |-> "",
              systemPrompt |-> "", messages |-> <<>>]
        /\ currentId' = heap'[agents'[1]].id ]_vars

\* C5 witness: the only agent (id 1) was deleted and replaced
C5_Witness ==
  /\ deleted = {1}
  /\ DOMAIN heap = {1, 2}
  /\ agents = <<2>>
  /\ heap[2].name = "Agent 1"
  /\ currentId = 2

NextToComplete_Newest == Len(inflight)

\* the in-flight transaction that completes next: the oldest one
NextToComplete == 1

\* tx.oncomplete of an in-flight transaction
TxComplete ==
  /\ lag
  /\ inflight # <<>>
  /\ LET k == NextToComplete
     IN /\ disk' = ApplyTx(disk, inflight[k])
        /\ inflight' = [i \in 1..(Len(inflight) - 1) |->
                          IF i < k THEN inflight[i] ELSE inflight[i + 1]]
  /\ UNCHANGED <<initDone, heap, agents, currentId, fallbackToLocalStorage,
                 saveTimer, pendingAgent, dbAgents, dbMeta, lsBlob, handed,
                 deleted, win, ops, lag, hist>>
  /\ UNCHANGED <<auditVars, relayVars, proxyVars, appVars>>

InitOrder ==
  /\ initDone = FALSE
  /\ heap = [k \in {} |-> Null]
  /\ agents = <<>>
  /\ currentId = Null
  /\ fallbackToLocalStorage = FALSE
  /\ saveTimer = FALSE
  /\ pendingAgent = Null
  /\ \E st \in InitialStorage :
       /\ dbAgents = st.db
       /\ dbMeta = st.meta
       /\ lsBlob = st.ls
       /\ disk = PutStamped([k \in {} |-> Null],
                            [i \in 1..Len(st.ls.agents) |->
                               [rec |-> st.ls.agents[i], rev |-> 0]])
  /\ handed = [k \in {} |-> Null]
  /\ deleted = {}
  /\ win = NoWin
  /\ ops = 0
  /\ lag = TRUE
  /\ hist = [k \in {} |-> Null]
  /\ inflight = <<>>
  /\ audit = FALSE
  /\ AuditIdle
  /\ req = NoRequest
  /\ RelayIdle
  /\ hreq = NoHttpRequest
  /\ ProxyIdle
  /\ AppIdle

NextOrder ==
  \/ InitOk
  \/ InitFallback
  \/ \E patch \in Patches : updateCurrentAgent(patch)
  \/ \E id \in Ids, name \in RenameNames : renameAgent(id, name)
  \/ flushPendingWrite
  \/ TimerFire
  \/ TxComplete

SpecOrder == InitOrder /\ [][NextOrder]_vars

\* C11: writes of one agent id are totally ordered: whatever patches,
\* renames, flushes and timer expiries are made and whenever the writes
\* complete, the durable record of an agent is never replaced by an older
\* in-memory state of that agent.
C11_WritesTotallyOrdered ==
  [][ \A a \in DOMAIN disk \cap DOMAIN disk' :
        disk'[a].rev >= disk[a].rev ]_vars

\* C11 witness: a rename and a flushed patch of agent 1 were written while
\* the write made by init was in flight; the rename's write has completed
\* and the flushed one is still in flight
C11_Witness ==
  /\ 1 \in DOMAIN disk
  /\ disk[1].rev = 2
  /\ disk[1].rec.name = "X"
  /\ Len(inflight) = 1
  /\ Len(inflight[1].puts) = 1
  /\ inflight[1].puts[1].rec.id = 1
  /\ inflight[1].puts[1].rev = 3

(***************************************************************************)
(* The completion relay: api.js generate / generateDirect / readSSE /      *)
(* readOpenRouterSSE, with the callbacks of app.js startGeneration.        *)
(*                                                                         *)
(* Text is a sequence of tokens: the "data: " prefix, a payload, or a line *)
(* feed.  A chunk boundary can fall between any two tokens.                *)
(***************************************************************************)
Tok(k, v) == [k |-> k, v |-> v]
Prefix == Tok("data: ", "")
LF == Tok("LF", "")

\* payloads of the normalized vocabulary written by the proxy, and a
\* payload that is not JSON
ProxiedPayloads ==
  { Tok("text_delta", "a"), Tok("text_delta", "b"), Tok("content", "ab"),
    Tok("usage", ""), Tok("error", "boom"), Tok("done", ""), Tok("junk", "") }

\* payloads of the provider's vocabulary: a chunk with or without delta
\* text, an error object, the [DONE] sentinel, and a payload that is not JSON
DirectPayloads ==
  { Tok("chunk", "a"), Tok("chunk", "b"), Tok("chunk", ""),
    Tok("error", "boom"), Tok("[DONE]", ""), Tok("junk", "") }

Payloads(m) == IF m = "proxied" THEN ProxiedPayloads ELSE DirectPayloads

\* a line without its line feed: blank, or "data: " followed by a payload
LinesOf(m) == {<<>>} \cup {<<Prefix, pl>> : pl \in Payloads(m)}

RECURSIVE SeqsUpTo(_, _)
SeqsUpTo(S, n) ==
  IF n = 0 THEN {<<>>}
  ELSE LET shorter == SeqsUpTo(S, n - 1)
       IN shorter \cup {Append(t, x) : t \in {u \in shorter : Len(u) = n - 1},
                                       x \in S}

\* the lines joined by line feeds; the last one ends with a line feed only
\* if terminated
RECURSIVE Join(_, _)
Join(ls, terminated) ==
  IF ls = <<>> THEN <<>>
  ELSE IF Len(ls) = 1
    THEN Head(ls) \o (IF terminated THEN <<LF>> ELSE <<>>)
    ELSE Head(ls) \o <<LF>> \o Join(Tail(ls), terminated)

Bodies(m) ==
  {Join(ls, t) : ls \in SeqsUpTo(LinesOf(m), MaxLines), t \in BOOLEAN}

\* buffer.split('\n') and lines.pop(): the complete lines and the fragment
\* held back
RECURSIVE SplitLF(_, _, _)
SplitLF(toks, cur, acc) ==
  IF toks = <<>> THEN [lines |-> acc, rest |-> cur]
  ELSE IF Head(toks) = LF
    THEN SplitLF(Tail(toks), <<>>, Append(acc, cur))
    ELSE SplitLF(Tail(toks), Append(cur, Head(toks)), acc)

\* buffer.split('\n') in a variant that does not keep the unfinished line
\* (buffer = '')
Split_NoCarry(text) == [SplitLF(text, <<>>, <<>>) EXCEPT !.rest = <<>>]

\* buffer.split('\n'); buffer = lines.pop()
Split(text) == SplitLF(text, <<>>, <<>>)

CB(cb, arg) == [cb |-> cb, arg |-> arg]

\* line.startsWith('data: ')
StartsWithData(line) == line # <<>> /\ Head(line) = Prefix

\* JSON.parse succeeds on the rest of the line: one payload that is JSON
ParsesAs(rest, kinds) == Len(rest) = 1 /\ rest[1].k \in kinds

\* readSSE: the body of the loop in a variant whose catch reports the
\* payload that does not parse (catch { onError?.(...); continue; })
readSSELine_ReportsMalformed(line) ==
  IF ~StartsWithData(line) THEN <<>>
  ELSE IF ~ParsesAs(Tail(line), {"text_delta", "content", "usage", "error",
                                 "done", "chunk"})
    THEN <<CB("onError", "SyntaxError")>>
  ELSE LET chunk == line[2]
       IN CASE chunk.k = "text_delta" -> <<CB("onDelta", chunk.v)>>
            [] chunk.k = "content"    -> <<CB("onContent", chunk.v)>>
            [] chunk.k = "usage"      -> <<CB("onUsage", "")>>
            [] chunk.k = "error"      -> <<CB("onError", chunk.v)>>
            [] chunk.k = "done"       -> <<CB("onDone", "")>>
            [] OTHER                  -> <<>>

\* readSSE: the body of "for (const line of lines)" for one line: the
\* callbacks it invokes
readSSELine(line) ==
  IF ~StartsWithData(line) THEN <<>>
  ELSE IF ~ParsesAs(Tail(line), {"text_delta", "content", "usage", "error",
                                 "done", "chunk"})
    THEN <<>>                                     \* catch { continue; }
  ELSE LET chunk == line[2]
       IN CASE chunk.k = "text_delta" -> <<CB("onDelta", chunk.v)>>
            [] chunk.k = "content"    -> <<CB("onContent", chunk.v)>>
            [] chunk.k = "usage"      -> <<CB("onUsage", "")>>
            [] chunk.k = "error"      -> <<CB("onError", chunk.v)>>
            [] chunk.k = "done"       -> <<CB("onDone", "")>>
            [] OTHER                  -> <<>>     \* no case of the switch

RECURSIVE readSSELines(_)
readSSELines(lines) ==
  IF lines = <<>> THEN <<>>
  ELSE readSSELine(Head(lines)) \o readSSELines(Tail(lines))

\* readOpenRouterSSE: "for (const line of lines)" from state
\* st = [text (fullText), calls, returned]
RECURSIVE readOpenRouterLines(_, _)
readOpenRouterLines(lines, st) ==
  IF lines = <<>> \/ st.returned THEN st
  ELSE LET line == Head(lines)
           next ==
             IF ~StartsWithData(line) THEN st
             ELSE IF Len(line) = 2 /\ line[2].k = "[DONE]" THEN st
             ELSE IF ~ParsesAs(Tail(line), {"chunk", "error", "text_delta",
                                            "content", "usage", "done"})
               THEN st
             ELSE IF line[2].k = "error"
               THEN [st EXCEPT !.calls = Append(@, CB("onError", line[2].v)),
                               !.returned = TRUE]
             ELSE IF line[2].k = "chunk" /\ line[2].v # ""
               THEN [st EXCEPT !.text = @ \o line[2].v,
                               !.calls = Append(@, CB("onDelta", line[2].v))]
             ELSE st
       IN readOpenRouterLines(Tail(lines), next)

(***************************************************************************)
(* app.js startGeneration: the callbacks handed to generate().  A is       *)
(* [appText, content, streaming, doneFired, doneEffects].                  *)
(***************************************************************************)
AppNow == [appText |-> appText, content |-> content, streaming |-> streaming,
           doneFired |-> doneFired, doneEffects |-> doneEffects]

appCallback(A, call) ==
  CASE call.cb = "onDelta" ->
         [A EXCEPT !.appText = @ \o call.arg,
                   !.content = A.appText \o call.arg]
    [] call.cb = "onContent" ->
         IF call.arg # ""
           THEN [A EXCEPT !.appText = call.arg, !.content = call.arg]
           ELSE A
    [] call.cb = "onError" ->
         [A EXCEPT !.content = "**Error:** " \o call.arg,
                   !.streaming = FALSE]           \* finishStreaming()
    [] call.cb = "onDone" ->
         IF A.doneFired THEN A
         ELSE [A EXCEPT !.doneFired = TRUE,
                        !.doneEffects = @ + 1,
                        !.streaming = FALSE]      \* finishStreaming()
    [] OTHER -> A                                 \* no onUsage is passed

RECURSIVE appCallbacks(_, _)
appCallbacks(A, cs) ==
  IF cs = <<>> THEN A ELSE appCallbacks(appCallback(A, Head(cs)), Tail(cs))

\* the relay invokes the callbacks cs, in order
Invoke(cs) ==
  LET A == appCallbacks(AppNow, cs)
  IN /\ calls' = calls \o cs
     /\ appText' = A.appText
     /\ content' = A.content
     /\ streaming' = A.streaming
     /\ doneFired' = A.doneFired
     /\ doneEffects' = A.doneEffects

\* positions at which the request waits for the network
Awaiting == {"fetch", "errbody", "read"}
\* positions at which the request is over
Finished == {"returned", "closed", "caught"}
RelayPositions == {"idle"} \cup Awaiting \cup Finished

\* .catch(err => { if (err.name === 'AbortError') return; onError?.(err.message); })
\* in a variant that reports every rejection
catchHandler_ReportsAbort(errName) == <<CB("onError", errName)>>

\* the same handler in a variant that treats an abort as a normal end
catchHandler_AbortIsDone(errName) ==
  IF errName = "AbortError" THEN <<CB("onDone", "")>>
  ELSE <<CB("onError", errName)>>

\* .catch(err => { if (err.name === 'AbortError') return; onError?.(err.message); })
catchHandler(errName) ==
  IF errName = "AbortError" THEN <<>> ELSE <<CB("onError", errName)>>

\* startGeneration() calling generate(), in a variant of generateDirect
\* without the "if (!apiKey)" block
startGeneration_NoKeyCheck ==
  /\ rpc = "idle"
  /\ ~streaming
  /\ streaming' = TRUE
  /\ doneFired' = FALSE
  /\ rpc' = "fetch"
  /\ UNCHANGED <<calls, appText, content, doneEffects>>
  /\ UNCHANGED <<req, sent, closed, queue, buffer, relayText, aborted>>
  /\ UNCHANGED <<smVars, proxyVars, appVars>>

\* app.js startGeneration() calling generate()
startGeneration ==
  /\ rpc = "idle"
  /\ ~streaming
  /\ IF req.mode = "direct" /\ ~req.hasKey
       THEN \* generateDirect: if (!apiKey) { onError?.(...); return; }
            /\ LET A == appCallbacks([AppNow EXCEPT !.streaming = TRUE,
                                                      !.doneFired = FALSE],
                                      <<CB("onError", "No API key")>>)
               IN /\ calls' = <<CB("onError", "No API key")>>
                  /\ appText' = A.appText
                  /\ content' = A.content
                  /\ streaming' = A.streaming
                  /\ doneFired' = A.doneFired
                  /\ doneEffects' = A.doneEffects
            /\ rpc' = "returned"
       ELSE /\ streaming' = TRUE
            /\ doneFired' = FALSE
            /\ rpc' = "fetch"
            /\ UNCHANGED <<calls, appText, content, doneEffects>>
  /\ UNCHANGED <<req, sent, closed, queue, buffer, relayText, aborted>>
  /\ UNCHANGED <<smVars, proxyVars, appVars>>

\* fetch() resolves with the response headers
FetchResolves ==
  /\ rpc = "fetch"
  /\ ~aborted
  /\ rpc' = IF req.status = "ok" THEN "read" ELSE "errbody"
  /\ UNCHANGED <<req, sent, closed, queue, buffer, relayText, aborted, calls,
                 streaming, doneFired, doneEffects, appText, content>>
  /\ UNCHANGED <<smVars, proxyVars, appVars>>

\* the message taken from the body of a non-success response.  A body of
\* status "error-json" is { error: "E" } from the proxy and
\* { error: { message: "E" } } from the provider; a body of status
\* "error-text" is the text "T", which is not JSON.
\*   proxied: j.error || `HTTP ${res.status}`
\*   direct : `OpenRouter API error ${res.status}: ${msg}` with
\*            msg = JSON.parse(body).error?.message || body, or body
ErrorMessage(r) ==
  IF r.mode = "proxied" THEN "E"
  ELSE "OpenRouter API error: " \o (IF r.status = "error-json" THEN "E" ELSE "T")

\* if (!res.ok): the error body has been read
ErrorBodyRead ==
  /\ rpc = "errbody"
  /\ ~aborted
  /\ IF req.mode = "proxied" /\ req.status = "error-text"
       THEN \* res.json() rejects with a SyntaxError
            /\ Invoke(catchHandler("SyntaxError"))
            /\ rpc' = "caught"
       ELSE /\ Invoke(<<CB("onError", ErrorMessage(req))>>)
            /\ rpc' = "returned"
  /\ UNCHANGED <<req, sent, closed, queue, buffer, relayText, aborted>>
  /\ UNCHANGED <<smVars, proxyVars, appVars>>

\* the pending fetch / body read rejects because the network failed
NetworkFails ==
  /\ rpc \in Awaiting
  /\ ~aborted
  /\ Invoke(catchHandler("TypeError"))
  /\ rpc' = "caught"
  /\ UNCHANGED <<req, sent, closed, queue, buffer, relayText, aborted>>
  /\ UNCHANGED <<smVars, proxyVars, appVars>>

\* the pending fetch / body read rejects because the signal has fired; what
\* the stream had queued is discarded
AbortRejects ==
  /\ rpc \in Awaiting
  /\ aborted
  /\ Invoke(catchHandler("AbortError"))
  /\ rpc' = "caught"
  /\ UNCHANGED <<req, sent, closed, queue, buffer, relayText, aborted>>
  /\ UNCHANGED <<smVars, proxyVars, appVars>>

\* the server sends the next n tokens of the body as one chunk
Deliver(n) ==
  /\ rpc = "read"
  /\ ~aborted
  /\ queue = <<>>
  /\ sent + n <= Len(req.body)
  /\ queue' = <<SubSeq(req.body, sent + 1, sent + n)>>
  /\ sent' = sent + n
  /\ UNCHANGED <<req, rpc, closed, buffer, relayText, aborted, calls,
                 streaming, doneFired, doneEffects, appText, content>>
  /\ UNCHANGED <<smVars, proxyVars, appVars>>

\* the server ends the body
ServerCloses ==
  /\ rpc = "read"
  /\ ~aborted
  /\ ~closed
  /\ sent = Len(req.body)
  /\ closed' = TRUE
  /\ UNCHANGED <<req, rpc, sent, queue, buffer, relayText, aborted, calls,
                 streaming, doneFired, doneEffects, appText, content>>
  /\ UNCHANGED <<smVars, proxyVars, appVars>>

\* reader.read() resolves with a chunk: one pass of the while loop
ReadChunk ==
  /\ rpc = "read"
  /\ ~aborted
  /\ queue # <<>>
  /\ LET sp == Split(buffer \o Head(queue))
     IN /\ buffer' = sp.rest
        /\ IF req.mode = "proxied"
             THEN /\ Invoke(readSSELines(sp.lines))
                  /\ rpc' = rpc
                  /\ UNCHANGED relayText
             ELSE LET st == readOpenRouterLines(sp.lines,
                               [text |-> relayText, calls |-> <<>>,
                                returned |-> FALSE])
                  IN /\ Invoke(st.calls)
                     /\ relayText' = st.text
                     /\ rpc' = IF st.returned THEN "returned" ELSE rpc
  /\ queue' = Tail(queue)
  /\ UNCHANGED <<req, sent, closed, aborted>>
  /\ UNCHANGED <<smVars, proxyVars, appVars>>

\* reader.read() resolves with done, in a variant that hands the text left
\* in the buffer to the body of the loop as a last line
ReadDone_ProcessesTail ==
  /\ rpc = "read"
  /\ ~aborted
  /\ queue = <<>>
  /\ closed
  /\ IF req.mode = "proxied"
       THEN Invoke(readSSELines(<<buffer>>) \o <<CB("onDone", "")>>)
       ELSE LET st == readOpenRouterLines(<<buffer>>,
                         [text |-> relayText, calls |-> <<>>,
                          returned |-> FALSE])
            IN Invoke(st.calls \o <<CB("onContent", st.text),
                                    CB("onUsage", ""), CB("onDone", "")>>)
  /\ rpc' = "closed"
  /\ UNCHANGED <<req, sent, closed, queue, buffer, relayText, aborted>>
  /\ UNCHANGED <<smVars, proxyVars, appVars>>

\* reader.read() resolves with done: the loop ends, the code after it runs
ReadDone ==
  /\ rpc = "read"
  /\ ~aborted
  /\ queue = <<>>
  /\ closed
  /\ IF req.mode = "proxied"
       THEN Invoke(<<CB("onDone", "")>>)
       ELSE Invoke(<<CB("onContent", relayText), CB("onUsage", ""),
                     CB("onDone", "")>>)
  /\ rpc' = "closed"
  /\ UNCHANGED <<req, sent, closed, queue, buffer, relayText, aborted>>
  /\ UNCHANGED <<smVars, proxyVars, appVars>>

\* app.js: a click on the button while streaming: stopGeneration()
stopGeneration ==
  /\ streaming
  /\ IF later
       THEN \* abortController is the controller of the later generation
            /\ later' = FALSE
            /\ UNCHANGED aborted
       ELSE /\ aborted' = TRUE    \* abortController.abort()
            /\ UNCHANGED later
  /\ streaming' = FALSE           \* finishStreaming()
  /\ UNCHANGED <<req, rpc, sent, closed, queue, buffer, relayText, calls,
                 doneFired, doneEffects, appText, content>>
  /\ UNCHANGED <<smVars, proxyVars, appPos, sharing, gen, appEvents>>

\* click on generate-btn while not streaming, after the request of this run
\* was made: startGeneration() starts a later generation.  abortController
\* is replaced by a new controller; the earlier request is not aborted
startGenerationAgain ==
  /\ rpc # "idle"
  /\ ~streaming
  /\ ~later
  /\ streaming' = TRUE
  /\ doneFired' = FALSE
  /\ later' = TRUE
  /\ UNCHANGED <<req, rpc, sent, closed, queue, buffer, relayText, aborted,
                 calls, doneEffects, appText, content>>
  /\ UNCHANGED <<smVars, proxyVars, appPos, sharing, gen, appEvents>>

\* the later generation ends: its own onDone is invoked
LaterDone ==
  /\ later
  /\ later' = FALSE
  /\ IF doneFired
       THEN UNCHANGED <<streaming, doneFired>>      \* if (doneFired) return
       ELSE /\ doneFired' = TRUE
            /\ streaming' = FALSE                   \* finishStreaming()
  /\ UNCHANGED <<req, rpc, sent, closed, queue, buffer, relayText, aborted,
                 calls, doneEffects, appText, content>>
  /\ UNCHANGED <<smVars, proxyVars, appPos, sharing, gen, appEvents>>

(***************************************************************************)
(* server.mjs handleGenerate: the frames the proxy writes, which are the   *)
(* body of a proxied response                                              *)
(***************************************************************************)
\* sse(res, data): the frame written
Frame(type, v) == Tok(type, v)

\* fullText += delta, in a variant that keeps the last fragment only
Accumulate_Overwrite(text, delta) == delta

\* fullText += delta
Accumulate(text, delta) == text \o delta

\* handleGenerate: "for (const line of lines)" from state
\* st = [text (fullText), frames (frames written by the loop)]
RECURSIVE proxyLines(_, _)
proxyLines(lines, st) ==
  IF lines = <<>> THEN st
  ELSE LET line == Head(lines)
           next ==
             IF ~StartsWithData(line) THEN st
             ELSE IF Len(line) = 2 /\ line[2].k = "[DONE]" THEN st
             ELSE IF ~ParsesAs(Tail(line), {"chunk", "error", "text_delta",
                                            "content", "usage", "done"})
               THEN st                            \* catch { continue; }
             ELSE IF line[2].k = "chunk" /\ line[2].v # ""
               THEN [text |-> Accumulate(st.text, line[2].v),
                     frames |-> Append(st.frames,
                                       Frame("text_delta", line[2].v))]
             ELSE st     \* chunk.choices?.[0]?.delta?.content is not truthy
       IN proxyLines(Tail(lines), next)

\* the frames of the proxy in a variant that writes done before content
ProxyFrames_DoneFirst(lines) ==
  LET st == proxyLines(lines, [text |-> "", frames |-> <<>>])
  IN st.frames \o <<Frame("done", ""), Frame("content", st.text)>>

\* the frames the proxy writes for an upstream body of the given complete
\* lines that arrives as one chunk and then closes
ProxyFrames(lines) ==
  LET st == proxyLines(lines, [text |-> "", frames |-> <<>>])
  IN st.frames \o <<Frame("content", st.text), Frame("done", "")>>

\* res.write(`data: ${JSON.stringify(data)}\n\n`) for each frame
RECURSIVE SseText(_)
SseText(fs) ==
  IF fs = <<>> THEN <<>>
  ELSE <<Prefix, Head(fs), LF, LF>> \o SseText(Tail(fs))

\* bodies of the proxy's 200 responses: the frames of a provider stream
\* read to its end, and the error frame of a refused upstream request
ProxyBodies ==
  {SseText(ProxyFrames(Split(b).lines)) : b \in Bodies("direct")}
  \cup {SseText(<<Frame("error", "boom")>>)}

\* the requests considered: the mode, whether a credential was supplied,
\* and what the network answers (status and body)
Requests ==
  UNION {{[mode |-> m, hasKey |-> TRUE, status |-> "ok", body |-> b] :
             b \in Bodies(m)} : m \in {"proxied", "direct"}}
  \cup
  {[mode |-> m, hasKey |-> TRUE, status |-> st, body |-> <<>>] :
      m \in {"proxied", "direct"}, st \in {"error-json", "error-text"}}
  \cup
  {[mode |-> "direct", hasKey |-> FALSE, status |-> "ok", body |-> <<>>]}
  \cup
  {[mode |-> "proxied", hasKey |-> TRUE, status |-> "ok", body |-> b] :
      b \in ProxyBodies}

InitRelay ==
  /\ initDone = FALSE
  /\ heap = [k \in {} |-> Null]
  /\ agents = <<>>
  /\ currentId = Null
  /\ fallbackToLocalStorage = FALSE
  /\ saveTimer = FALSE
  /\ pendingAgent = Null
  /\ dbAgents = [k \in {} |-> Null]
  /\ dbMeta = NoMeta
  /\ lsBlob = NoBlob
  /\ handed = [k \in {} |-> Null]
  /\ deleted = {}
  /\ win = NoWin
  /\ ops = 0
  /\ lag = FALSE
  /\ hist = [k \in {} |-> Null]
  /\ inflight = <<>>
  /\ disk = [k \in {} |-> Null]
  /\ audit = FALSE
  /\ AuditIdle
  /\ req \in Requests
  /\ RelayIdle
  /\ hreq = NoHttpRequest
  /\ ProxyIdle
  /\ AppIdle

NextRelay ==
  \/ startGeneration
  \/ FetchResolves
  \/ ErrorBodyRead
  \/ NetworkFails
  \/ AbortRejects
  \/ \E n \in 1..(3 * MaxLines) : Deliver(n)
  \/ ServerCloses
  \/ ReadChunk
  \/ ReadDone
  \/ stopGeneration
  \/ startGenerationAgain
  \/ LaterDone

SpecRelay == InitRelay /\ [][NextRelay]_vars

(***************************************************************************)
(* Properties of the relay (SpecRelay)                                     *)
(***************************************************************************)
CountOf(cs, cb) == Cardinality({i \in 1..Len(cs) : cs[i].cb = cb})

\* the body carries a complete line with an explicit done event
HasDoneEvent ==
  \E i \in 1..Len(Split(req.body).lines) :
     Split(req.body).lines[i] = <<Prefix, Tok("done", "")>>

\* C6: idempotent done: when the stream carried an explicit done event and
\* then closed naturally, the relay has invoked onDone exactly once.
C6_DoneInvokedOnce ==
  (req.mode = "proxied" /\ rpc = "closed" /\ HasDoneEvent) =>
     CountOf(calls, "onDone") = 1

\* C7: onError is terminal: once the relay has invoked onError it invokes
\* no further callback (no second onError, no onDelta, onContent, onUsage
\* or onDone), in proxied and in direct mode.
C7_ErrorIsTerminal ==
  [][ CountOf(calls, "onError") >= 1 => calls' = calls ]_vars

\* C8: cancellation suppresses error: from the moment the signal fires, the
\* relay never invokes onError, wherever the request was waiting.
C8_AbortSuppressesError ==
  [][ aborted' => CountOf(calls', "onError") = CountOf(calls, "onError") ]_vars

\* C8 witness: the signal fired while a read was pending, and the rejected
\* read went through the catch handler
C8_Witness ==
  /\ aborted
  /\ rpc = "caught"
  /\ sent > 0
  /\ CountOf(calls, "onError") = 0

\* C9: after the signal has fired no callback of any kind is invoked, also
\* when a chunk had been received and not yet processed, and the text that
\* onDelta delivered before stays the message content.
C9_NoCallbackAfterAbort ==
  [][ aborted => /\ calls' = calls
                 /\ content' = content
                 /\ appText' = appText ]_vars

\* C9 witness: a delta was delivered, then the signal fired while a received
\* chunk was still unprocessed, and the request ended with the delta kept
C9_Witness ==
  /\ aborted
  /\ rpc = "caught"
  /\ queue # <<>>
  /\ CountOf(calls, "onDelta") = 1
  /\ content = "a"

(***************************************************************************)
(* The decoders as functions of the whole body                             *)
(***************************************************************************)
IsPrefix(s, t) == Len(s) <= Len(t) /\ SubSeq(t, 1, Len(s)) = s

\* the callbacks of a request whose body consists of the given complete
\* lines, arrives as one chunk and then closes
DecodeLines(m, lines) ==
  IF m = "proxied"
    THEN readSSELines(lines) \o <<CB("onDone", "")>>
    ELSE LET st == readOpenRouterLines(lines, [text |-> "", calls |-> <<>>,
                                               returned |-> FALSE])
         IN IF st.returned THEN st.calls
            ELSE st.calls \o <<CB("onContent", st.text), CB("onUsage", ""),
                               CB("onDone", "")>>

\* the callbacks of a request whose whole body arrives as one chunk and
\* whose stream then closes
WholeCalls(r) == DecodeLines(r.mode, Split(r.body).lines)

\* the request got a 200 response and a body
Streamed == req.status = "ok" /\ (req.mode = "direct" => req.hasKey)

\* C12: decoder reassembly: however the body is cut into chunks, the
\* callbacks invoked while it is read are an initial part of the callbacks
\* of the same body arriving as a single chunk, and once the stream is over
\* they are exactly those.
C12_DecoderReassembly ==
  /\ (Streamed /\ rpc = "read") => IsPrefix(calls, WholeCalls(req))
  /\ (Streamed /\ rpc \in {"closed", "returned"}) => calls = WholeCalls(req)

\* C12 witness: a first chunk ended inside the second line (after "data: "),
\* the first line's event was dispatched and the rest of the second line
\* has just been received as the next chunk
C12_Witness ==
  /\ Streamed
  /\ rpc = "read"
  /\ buffer = <<Prefix>>
  /\ Len(calls) = 1
  /\ queue # <<>>
  /\ Len(Head(queue)) = 2
  /\ Head(queue)[2] = LF

(***************************************************************************)
(* The proxy: server.mjs handleGenerate, one POST /api/generate.           *)
(* The upstream provider speaks the vocabulary of DirectPayloads; the      *)
(* proxy writes frames of the vocabulary of ProxiedPayloads.               *)
(***************************************************************************)
\* positions at which handleGenerate waits for the upstream provider
ProxyAwaiting == {"fetch", "text", "read"}
\* "ended": handleGenerate returned; "threw": it threw before answering
ProxyPositions == {"idle"} \cup ProxyAwaiting \cup {"ended", "threw"}

\* payload : what JSON.parse(body) gives ("invalid": it throws; "null": the
\*           value null; "object": any other value)
\* messages: the messages property of the payload
\* xApiKey : the x-api-key header ("" : absent)
\* envKey  : process.env.OPENROUTER_API_KEY ("" : not set)
\* status, body: what the provider answers
EnvKeys == {"", "sk", "sk2"}

HttpRequests ==
  {[payload |-> pl, messages |-> "missing", xApiKey |-> "hk", envKey |-> "",
    status |-> "ok", body |-> <<>>] : pl \in {"invalid", "null"}}
  \cup
  {[payload |-> "object", messages |-> ms, xApiKey |-> "hk", envKey |-> "",
    status |-> "ok", body |-> <<>>] : ms \in {"missing", "notArray", "empty"}}
  \cup
  {[payload |-> "object", messages |-> "ok", xApiKey |-> hk, envKey |-> ek,
    status |-> st, body |-> <<>>] :
      hk \in {"", "hk"}, ek \in EnvKeys,
      st \in {"ok", "error-json", "error-text"}}
  \cup
  {[payload |-> "object", messages |-> "ok", xApiKey |-> "hk", envKey |-> "",
    status |-> "ok", body |-> b] : b \in Bodies("direct")}

\* res.writeHead(status, ...); res.end(JSON.stringify({ error })); return
Reject(status, error) ==
  /\ resStatus' = status
  /\ resBody' = error
  /\ resEnded' = TRUE
  /\ hpos' = "ended"
  /\ UNCHANGED <<frames, upKey>>

\* handleGenerate(req, res) up to the upstream fetch
handleGenerate ==
  /\ hpos = "idle"
  /\ IF hreq.payload = "invalid"
       THEN Reject(400, "Invalid JSON")
     ELSE IF hreq.payload = "null"
       THEN \* const { model, systemPrompt, messages } = null throws
            /\ hpos' = "threw"
            /\ UNCHANGED <<resStatus, resBody, resEnded, frames, upKey>>
     ELSE IF hreq.messages # "ok"
       THEN Reject(400, "messages array is required")
     ELSE LET apiKey == IF hreq.envKey # "" THEN hreq.envKey ELSE hreq.xApiKey
          IN IF apiKey = ""
               THEN Reject(401, "No API key")
               ELSE /\ resStatus' = 200
                    /\ upKey' = apiKey
                    /\ hpos' = "fetch"
                    /\ UNCHANGED <<resBody, resEnded, frames>>
  /\ UNCHANGED <<hreq, clientClosed, upAborted, usent, uclosed, uqueue, srvBuffer,
                 srvFullText, srvAborted>>
  /\ UNCHANGED <<smVars, appVars, relayVars, configRes>>

\* await fetch(...) resolves with the provider's response head
UpstreamResponds ==
  /\ hpos = "fetch"
  /\ ~srvAborted
  /\ hpos' = IF hreq.status = "ok" THEN "read" ELSE "text"
  /\ UNCHANGED <<hreq, clientClosed, resStatus, resBody, frames, resEnded, upKey, upAborted,
                 usent, uclosed, uqueue, srvBuffer, srvFullText, srvAborted>>
  /\ UNCHANGED <<smVars, appVars, relayVars, configRes>>

\* if (!apiRes.ok) in a variant without "res.end(); return": after the
\* error frame the code below the block writes content and done
UpstreamErrorBody_FallsThrough ==
  /\ hpos = "text"
  /\ ~srvAborted
  /\ frames' = frames \o <<Frame("error", "OpenRouter API error"),
                           Frame("content", srvFullText), Frame("done", "")>>
  /\ resEnded' = TRUE
  /\ hpos' = "ended"
  /\ UNCHANGED <<hreq, clientClosed, resStatus, resBody, upKey, upAborted, usent, uclosed,
                 uqueue, srvBuffer, srvFullText, srvAborted>>
  /\ UNCHANGED <<smVars, appVars, relayVars, configRes>>

\* if (!apiRes.ok): the error body has been read
UpstreamErrorBody ==
  /\ hpos = "text"
  /\ ~srvAborted
  /\ frames' = Append(frames,
                      Frame("error", IF hreq.status = "error-json"
                                       THEN "OpenRouter API error: message"
                                       ELSE "OpenRouter API error: body"))
  /\ resEnded' = TRUE
  /\ hpos' = "ended"
  /\ UNCHANGED <<hreq, clientClosed, resStatus, resBody, upKey, upAborted, usent, uclosed,
                 uqueue, srvBuffer, srvFullText, srvAborted>>
  /\ UNCHANGED <<smVars, appVars, relayVars, configRes>>

\* the pending fetch / read rejects because the network failed:
\* catch (err) { if (!aborted) sse(res, { type: 'error', ... }) }  res.end()
UpstreamFails ==
  /\ hpos \in ProxyAwaiting
  /\ ~srvAborted
  /\ frames' = Append(frames, Frame("error", "fetch failed"))
  /\ resEnded' = TRUE
  /\ hpos' = "ended"
  /\ UNCHANGED <<hreq, clientClosed, resStatus, resBody, upKey, upAborted, usent, uclosed,
                 uqueue, srvBuffer, srvFullText, srvAborted>>
  /\ UNCHANGED <<smVars, appVars, relayVars, configRes>>

\* The client closes the connection. handleGenerate registers its 'close'
\* listener on req (line 121) after it has consumed the whole request body
\* (line 80). Whether the runtime still has a 'close' event to emit on req
\* at that point is decided by the runtime: one that emits 'close' when the
\* socket closes runs the listener now (aborted = true; abort()); one that
\* emitted 'close' when the request completed, before the listener was
\* registered, never runs it. Both outcomes are taken.
ClientCloses ==
  /\ hpos \in ProxyAwaiting
  /\ ~clientClosed
  /\ clientClosed' = TRUE
  /\ \E observed \in BOOLEAN :
       /\ srvAborted' = observed
       /\ upAborted' = observed
  /\ UNCHANGED <<hreq, hpos, resStatus, resBody, frames, resEnded, upKey,
                 usent, uclosed, uqueue, srvBuffer, srvFullText>>
  /\ UNCHANGED <<smVars, appVars, relayVars, configRes>>

\* after the close the pending fetch / read rejects with an AbortError
\* (catch: aborted, nothing written) or a read resolves and the loop breaks
\* on "if (aborted) break" (nothing written either); then res.end()
AbortObserved ==
  /\ hpos \in ProxyAwaiting
  /\ srvAborted
  /\ resEnded' = TRUE
  /\ hpos' = "ended"
  /\ UNCHANGED <<hreq, clientClosed, resStatus, resBody, frames, upKey, upAborted, usent,
                 uclosed, uqueue, srvBuffer, srvFullText, srvAborted>>
  /\ UNCHANGED <<smVars, appVars, relayVars, configRes>>

\* the provider sends the next n tokens of its body as one chunk
UpstreamDelivers(n) ==
  /\ hpos = "read"
  /\ ~srvAborted
  /\ uqueue = <<>>
  /\ usent + n <= Len(hreq.body)
  /\ uqueue' = <<SubSeq(hreq.body, usent + 1, usent + n)>>
  /\ usent' = usent + n
  /\ UNCHANGED <<hreq, clientClosed, hpos, resStatus, resBody, frames, resEnded, upKey,
                 upAborted, uclosed, srvBuffer, srvFullText, srvAborted>>
  /\ UNCHANGED <<smVars, appVars, relayVars, configRes>>

\* the provider ends its body
UpstreamCloses ==
  /\ hpos = "read"
  /\ ~srvAborted
  /\ ~uclosed
  /\ usent = Len(hreq.body)
  /\ uclosed' = TRUE
  /\ UNCHANGED <<hreq, clientClosed, hpos, resStatus, resBody, frames, resEnded, upKey,
                 upAborted, usent, uqueue, srvBuffer, srvFullText, srvAborted>>
  /\ UNCHANGED <<smVars, appVars, relayVars, configRes>>

\* reader.read() resolves with a chunk: one pass of the while loop
ProxyReadChunk ==
  /\ hpos = "read"
  /\ ~srvAborted
  /\ uqueue # <<>>
  /\ LET sp == Split(srvBuffer \o Head(uqueue))
         st == proxyLines(sp.lines, [text |-> srvFullText, frames |-> <<>>])
     IN /\ srvBuffer' = sp.rest
        /\ srvFullText' = st.text
        /\ frames' = frames \o st.frames
  /\ uqueue' = Tail(uqueue)
  /\ UNCHANGED <<hreq, clientClosed, hpos, resStatus, resBody, resEnded, upKey, upAborted,
                 usent, uclosed, srvAborted>>
  /\ UNCHANGED <<smVars, appVars, relayVars, configRes>>

\* reader.read() resolves with done: if (!aborted) { content; done }  res.end()
ProxyReadDone ==
  /\ hpos = "read"
  /\ ~srvAborted
  /\ uqueue = <<>>
  /\ uclosed
  /\ frames' = frames \o <<Frame("content", srvFullText), Frame("done", "")>>
  /\ resEnded' = TRUE
  /\ hpos' = "ended"
  /\ UNCHANGED <<hreq, clientClosed, resStatus, resBody, upKey, upAborted, usent, uclosed,
                 uqueue, srvBuffer, srvFullText, srvAborted>>
  /\ UNCHANGED <<smVars, appVars, relayVars, configRes>>

\* server.mjs: DEFAULT_MODEL, MODELS
DEFAULT_MODEL == "anthropic/claude-sonnet-4"
MODELS == <<"anthropic/claude-sonnet-4", "openai/gpt-4.1-mini",
            "openai/gpt-4.1-nano", "google/gemini-2.5-flash",
            "x-ai/grok-3-mini", "meta-llama/llama-4-scout",
            "deepseek/deepseek-chat-v3-0324:free">>

\* a variant of the /api/config body that also carries the key
apiConfig_WithKey(envKey) ==
  [defaultModel |-> DEFAULT_MODEL, models |-> MODELS,
   hasApiKey |-> envKey # "", apiKey |-> envKey]

\* the body of the GET /api/config response of a server whose
\* OPENROUTER_API_KEY is envKey
apiConfig(envKey) ==
  [defaultModel |-> DEFAULT_MODEL, models |-> MODELS,
   hasApiKey |-> envKey # ""]

\* GET /api/config: answered at once, whatever handleGenerate is doing
GetConfig ==
  /\ configRes = <<>>
  /\ configRes' = Append(configRes, apiConfig(hreq.envKey))
  /\ UNCHANGED <<hreq, hpos, resStatus, resBody, frames, resEnded, upKey,
                 upAborted, usent, uclosed, uqueue, srvBuffer, srvFullText,
                 srvAborted, clientClosed>>
  /\ UNCHANGED <<smVars, appVars, relayVars>>

InitProxy ==
  /\ initDone = FALSE
  /\ heap = [k \in {} |-> Null]
  /\ agents = <<>>
  /\ currentId = Null
  /\ fallbackToLocalStorage = FALSE
  /\ saveTimer = FALSE
  /\ pendingAgent = Null
  /\ dbAgents = [k \in {} |-> Null]
  /\ dbMeta = NoMeta
  /\ lsBlob = NoBlob
  /\ handed = [k \in {} |-> Null]
  /\ deleted = {}
  /\ win = NoWin
  /\ ops = 0
  /\ lag = FALSE
  /\ hist = [k \in {} |-> Null]
  /\ inflight = <<>>
  /\ disk = [k \in {} |-> Null]
  /\ audit = FALSE
  /\ AuditIdle
  /\ req = NoRequest
  /\ RelayIdle
  /\ hreq \in HttpRequests
  /\ ProxyIdle
  /\ AppIdle

NextProxy ==
  \/ handleGenerate
  \/ UpstreamResponds
  \/ UpstreamErrorBody
  \/ UpstreamFails
  \/ ClientCloses
  \/ AbortObserved
  \/ \E n \in 1..(3 * MaxLines) : UpstreamDelivers(n)
  \/ UpstreamCloses
  \/ ProxyReadChunk
  \/ ProxyReadDone
  \/ GetConfig

SpecProxy == InitProxy /\ [][NextProxy]_vars

(***************************************************************************)
(* Properties of the decoders                                              *)
(***************************************************************************)
\* payloads on which JSON.parse succeeds
JsonPayloads == {"chunk", "error", "text_delta", "content", "usage", "done"}

\* a "data: " line whose payload is not valid JSON
Malformed(line) == StartsWithData(line) /\ ~ParsesAs(Tail(line), JsonPayloads)

WithoutMalformed(lines) == SelectSeq(lines, LAMBDA l : ~Malformed(l))

\* C13: malformed line tolerance: a "data: " line whose payload is not valid
\* JSON yields no callback, and the callbacks of the whole stream are those
\* of the same stream without its malformed lines, in both decoders of the
\* relay; the proxy's loop writes the same frames with and without them.
C13_MalformedLineTolerance ==
  /\ (Streamed /\ rpc \in {"closed", "returned"}) =>
        calls = DecodeLines(req.mode, WithoutMalformed(Split(req.body).lines))
  /\ (Streamed /\ req.mode = "direct") =>
        ProxyFrames(Split(req.body).lines) =
          ProxyFrames(WithoutMalformed(Split(req.body).lines))

\* C13 witness: a malformed line followed by a delta line was read to the
\* end of the stream, and the delta was delivered
C13_Witness ==
  /\ Streamed
  /\ rpc = "closed"
  /\ Len(Split(req.body).lines) = 2
  /\ Malformed(Split(req.body).lines[1])
  /\ CountOf(calls, "onDelta") = 1
  /\ CountOf(calls, "onError") = 0

\* the non-empty delta fragments carried by complete lines, in order
Fragments(lines) ==
  LET sel == SelectSeq(lines, LAMBDA l : /\ Len(l) = 2
                                         /\ l[1] = Prefix
                                         /\ l[2].k = "chunk"
                                         /\ l[2].v # "")
  IN [i \in 1..Len(sel) |-> sel[i][2].v]

RECURSIVE Concat(_)
Concat(ss) == IF ss = <<>> THEN "" ELSE Head(ss) \o Concat(Tail(ss))

\* a complete line carries an error object
HasErrorLine(lines) ==
  \E i \in 1..Len(lines) : lines[i] = <<Prefix, Tok("error", "boom")>>

\* C14: delta ordering and accumulation: the proxy writes one text_delta
\* frame per non-empty upstream fragment, in arrival order, and the content
\* frame that follows them carries their concatenation; the direct decoder
\* invokes onDelta once per fragment in the same order and onContent with
\* their concatenation.
C14_DeltaOrderAndAccumulation ==
  LET lines == Split(hreq.body).lines
      frags == Fragments(lines)
      deltas == [i \in 1..Len(frags) |-> Frame("text_delta", frags[i])]
  IN /\ (hpos = "read" /\ ~srvAborted) => IsPrefix(frames, deltas)
     /\ (hpos = "ended" /\ resStatus = 200 /\ hreq.status = "ok" /\ ~srvAborted
           /\ frames # <<>> /\ frames[Len(frames)].k = "done") =>
          frames = deltas \o <<Frame("content", Concat(frags)), Frame("done", "")>>
     /\ ~HasErrorLine(lines) =>
          DecodeLines("direct", lines) =
            [i \in 1..Len(frags) |-> CB("onDelta", frags[i])]
              \o <<CB("onContent", Concat(frags)), CB("onUsage", ""),
                   CB("onDone", "")>>

\* C14 witness: the provider sent the fragments "a" and "b"; the proxy wrote
\* two text_delta frames, the content "ab" and done
C14_Witness ==
  /\ hpos = "ended"
  /\ Fragments(Split(hreq.body).lines) = <<"a", "b">>
  /\ frames = <<Frame("text_delta", "a"), Frame("text_delta", "b"),
                Frame("content", "ab"), Frame("done", "")>>

\* the place of a callback in the order onDelta, onContent, onUsage, onDone
CbRank(cb) ==
  CASE cb = "onDelta"   -> 1
    [] cb = "onContent" -> 2
    [] cb = "onUsage"   -> 3
    [] cb = "onDone"    -> 4
    [] OTHER            -> 5

\* the request was answered by the provider (direct mode) or by the proxy
\* of this repository (proxied mode)
OwnServer == req.mode = "proxied" => req.body \in ProxyBodies

\* C15: callback partial order on success: when a request has ended without
\* error, the callbacks were invoked in the order onDelta (any number), then
\* onContent (at most once), then onUsage (at most once, only after an
\* onContent), then onDone, and nothing but onDone follows an onDone.
C15_CallbackOrderOnSuccess ==
  (Streamed /\ OwnServer /\ rpc = "closed" /\ CountOf(calls, "onError") = 0) =>
     /\ \A i, j \in 1..Len(calls) :
          i < j => CbRank(calls[i].cb) <= CbRank(calls[j].cb)
     /\ CountOf(calls, "onContent") <= 1
     /\ CountOf(calls, "onUsage") <= 1
     /\ CountOf(calls, "onUsage") = 1 => CountOf(calls, "onContent") = 1
     /\ calls # <<>>
     /\ calls[Len(calls)].cb = "onDone"

\* C15 witness: a proxied request answered by the proxy with two deltas,
\* content and done was read to the end of the stream
C15_Witness ==
  /\ req.mode = "proxied"
  /\ req.body \in ProxyBodies
  /\ rpc = "closed"
  /\ CountOf(calls, "onDelta") = 2
  /\ CountOf(calls, "onContent") = 1
  /\ calls[1] = CB("onDelta", "a")

(***************************************************************************)
(* Properties of the proxy (SpecProxy)                                     *)
(***************************************************************************)
FrameCount(fs, type) == Cardinality({i \in 1..Len(fs) : fs[i].k = type})

\* C16: upstream embedded error: when the provider answered 200 and a
\* complete line of its stream carried an error object, the response the
\* proxy has ended (with the client still connected) contains an error frame
\* and no done frame.
C16_EmbeddedErrorIsTerminal ==
  (hpos = "ended" /\ resStatus = 200 /\ hreq.status = "ok" /\ ~srvAborted
     /\ HasErrorLine(Split(hreq.body).lines)) =>
       /\ FrameCount(frames, "error") >= 1
       /\ FrameCount(frames, "done") = 0

(***************************************************************************)
(* Properties of the relay: requests refused before streaming              *)
(***************************************************************************)
\* the messages that carry the text of the error body of request r
ExtractedMessages(r) ==
  IF r.status = "error-json"
    THEN {"E", "OpenRouter API error: E"}
    ELSE {"T", "OpenRouter API error: T"}

\* the request ended in a network failure
NetworkFailed == \E i \in 1..Len(calls) : calls[i] = CB("onError", "TypeError")

\* C17: a non-success status before streaming: when the request is over
\* (not cancelled, no network failure), the relay has invoked onError exactly
\* once, with a message taken from the body, and nothing else, in both modes
\* and also for a body that is not JSON.
C17_NonSuccessStatus ==
  (req.status # "ok" /\ rpc \in Finished /\ ~aborted /\ ~NetworkFailed) =>
     /\ Len(calls) = 1
     /\ calls[1].cb = "onError"
     /\ calls[1].arg \in ExtractedMessages(req)

\* C18: missing credential in direct mode: the call of generate itself
\* invokes onError once and returns, no fetch is ever made for the request,
\* and no further callback follows.
C18_MissingCredentialDirect ==
  [][ (req.mode = "direct" /\ ~req.hasKey) =>
        /\ rpc' \in {"idle", "returned"}
        /\ rpc = "idle" /\ rpc' # "idle" =>
             calls' = <<CB("onError", "No API key")>>
        /\ rpc = "returned" => calls' = calls ]_vars

\* C18 witness: generate was called in direct mode without a credential and
\* has returned
C18_Witness ==
  /\ req.mode = "direct"
  /\ ~req.hasKey
  /\ rpc = "returned"
  /\ calls = <<CB("onError", "No API key")>>
  /\ ~streaming

(***************************************************************************)
(* Properties of the proxy: request validation                             *)
(***************************************************************************)
\* the answer is an error object with the given status; no upstream request
\* was made and no event stream was started
Refused(status) ==
  /\ resStatus = status
  /\ resBody # ""
  /\ resEnded
  /\ upKey = ""
  /\ frames = <<>>

\* C19: request validation: once handleGenerate has run, a body that is not
\* valid JSON or has no non-empty messages array was answered 400, a request
\* without any credential 401, in both cases without upstream request or
\* event stream; any other request goes upstream with the server-side key
\* if one is configured and with the x-api-key header otherwise.
C19_RequestValidation ==
  hpos # "idle" =>
     IF hreq.payload = "invalid" \/ hreq.messages # "ok"
       THEN Refused(400)
     ELSE IF hreq.envKey = "" /\ hreq.xApiKey = ""
       THEN Refused(401)
     ELSE /\ resStatus = 200
          /\ upKey = IF hreq.envKey # "" THEN hreq.envKey ELSE hreq.xApiKey

(***************************************************************************)
(* Properties of the proxy: the frames of a 200 response                   *)
(***************************************************************************)
\* the frames of an ended 200 response: the last one is the only terminal
\* frame, and before a done come text_delta frames and then one content
WellTerminated(fs) ==
  /\ fs # <<>>
  /\ fs[Len(fs)].k \in {"done", "error"}
  /\ FrameCount(fs, "done") + FrameCount(fs, "error") = 1
  /\ fs[Len(fs)].k = "done" =>
       /\ Len(fs) >= 2
       /\ fs[Len(fs) - 1].k = "content"
       /\ \A i \in 1..(Len(fs) - 2) : fs[i].k = "text_delta"
  /\ fs[Len(fs)].k = "error" =>
       \A i \in 1..(Len(fs) - 1) : fs[i].k = "text_delta"

Terminated200 ==
  (hpos = "ended" /\ resStatus = 200 /\ ~srvAborted) =>
     /\ resEnded
     /\ WellTerminated(frames)

\* C20: every 200 response whose client stayed connected ends with exactly
\* one terminal frame, done or error, which is its last frame; a done is
\* preceded by text_delta frames and exactly one content, an error frame
\* never shares a response with a done frame, and once res.end() was called
\* no frame is written.
C20_OneTerminalFrame ==
  [][ Terminated200' /\ (resEnded => frames' = frames) ]_vars

\* C20 witness: a 200 response with one delta has ended with content and done
C20_Witness ==
  /\ hpos = "ended"
  /\ resStatus = 200
  /\ ~srvAborted
  /\ resEnded
  /\ frames = <<Frame("text_delta", "b"), Frame("content", "b"),
                Frame("done", "")>>

(***************************************************************************)
(* Properties of the proxy: the client closes the connection               *)
(***************************************************************************)
\* the frames written by a step
NewFrames == SubSeq(frames', Len(frames) + 1, Len(frames'))

\* C21: when the client closes the connection of a POST /api/generate
\* stream the proxy aborts the upstream request, and in no step taken after
\* the close does it write a content, done or error frame.
C21_CloseAbortsUpstream ==
  [][ /\ clientClosed' => upAborted'
      /\ clientClosed =>
            \A i \in 1..Len(NewFrames) :
               NewFrames[i].k \notin {"content", "done", "error"} ]_vars

\* the listener of line 121 ran when the client closed: nothing is written
\* after that and the upstream request is aborted
ObservedCloseIsQuiet ==
  [][ /\ srvAborted' => upAborted'
      /\ srvAborted => frames' = frames ]_vars

(***************************************************************************)
(* Properties of the proxy: the server's key stays on the server           *)
(***************************************************************************)
\* the texts the proxy has sent to the client of /api/generate
SentTexts == {frames[i].v : i \in 1..Len(frames)} \cup {resBody}

\* C22: a /api/config response has exactly the fields defaultModel, models
\* and the boolean hasApiKey, it is the response a server configured with
\* any other non-empty key gives, and no frame or error body of
\* /api/generate is the server's key.
C22_KeyNotExposed ==
  /\ \A i \in 1..Len(configRes) :
       /\ DOMAIN configRes[i] = {"defaultModel", "models", "hasApiKey"}
       /\ configRes[i].hasApiKey \in BOOLEAN
       /\ hreq.envKey # "" =>
            \A k \in EnvKeys \ {""} : configRes[i] = apiConfig(k)
  /\ hreq.envKey # "" => hreq.envKey \notin SentTexts

\* C22 witness: a server with a key has answered /api/config and has ended
\* a /api/generate stream that used this key upstream
C22_Witness ==
  /\ hreq.envKey = "sk2"
  /\ Len(configRes) = 1
  /\ configRes[1].hasApiKey
  /\ upKey = "sk2"
  /\ hpos = "ended"
  /\ frames # <<>>

(***************************************************************************)
(* Properties of the State Manager over stored data (SpecStore)            *)
(***************************************************************************)
\* every storage call the last operation issued wrote the localStorage blob
OnlyLegacySaves(iss) == \A i \in 1..Len(iss) : iss[i].op = "legacySave"

\* C23: the fallback is sticky: once init has set fallbackToLocalStorage it
\* stays set, and every operation that runs from then on (create, patch and
\* debounced write, flush, delete, duplicate, rename, setCurrent,
\* saveAgents, and the ensure-one block of init itself) issues localStorage
\* blob writes only, never an IndexedDB storage call; createAgent and
\* saveAgents, which always persist, do write the blob.
C23_FallbackIsSticky ==
  [][ /\ fallbackToLocalStorage => fallbackToLocalStorage'
      /\ fallbackToLocalStorage' => OnlyLegacySaves(lastIssued')
      /\ (fallbackToLocalStorage /\ ops' # ops
            /\ lastOp' \in {"createAgent", "saveAgents"})
           => lastIssued' # <<>> ]_vars

\* C23 witness: in fallback mode the only agent was deleted, and the
\* deletion wrote the blob
C23_Witness ==
  /\ fallbackToLocalStorage
  /\ lastOp = "deleteAgent"
  /\ lastIssued # <<>>
  /\ OnlyLegacySaves(lastIssued)
  /\ deleted # {}

\* C24: a failed durable write is never visible to the caller: the
\* operation that issued it has returned (init has resolved), and the
\* in-memory agents and currentId are what they would be had every write
\* of the operation succeeded.
C24_FailuresInvisible ==
  lastFailed # {} =>
    /\ MemoryOf(Here) = okMem
    /\ lastOp = "init" => initDone

\* C24 witness: createAgent ran, its write of the new agent failed, and the
\* agent is in memory and current but not in the store
C24_Witness ==
  /\ lastOp = "createAgent"
  /\ "agents" \in lastFailed
  /\ currentId \notin DOMAIN dbAgents
  /\ currentId \in ListedIds

\* a migration write failed during init: init resolved in fallback mode
\* with the agents of the legacy blob
FailedMigrationReached ==
  /\ lastOp = "init"
  /\ lastFailed \cap {"migrate-agents", "migrate-meta"} # {}
  /\ initDone
  /\ fallbackToLocalStorage
  /\ agents # <<>>

(***************************************************************************)
(* Properties of the storage layer (SpecStorage)                           *)
(***************************************************************************)
\* the step is a call of migrateFromLocalStorage
MigrateStep ==
  sret'.n = sret.n + 1 /\ sret'.op = "migrateFromLocalStorage"

\* the store holds the agents, currentId and agent order of the blob
Migrated(db, meta, blob) ==
  /\ \A i \in 1..Len(blob.agents) :
       /\ blob.agents[i].id \in DOMAIN db
       /\ db[blob.agents[i].id] = blob.agents[i]
  /\ DOMAIN meta = {"currentId", "agentOrder"}
  /\ meta["currentId"] = blob.currentId
  /\ meta["agentOrder"] = [i \in 1..Len(blob.agents) |-> blob.agents[i].id]

\* C25: a migration that finds a legacy blob that parses removes it only
\* after both the agents write and the meta write (currentId, and
\* agentOrder equal to the legacy agents' order) have succeeded; if either
\* write fails the blob is still present and unchanged.
C25_BlobRemovedAfterWrites ==
  [][ (MigrateStep /\ lsBlob.present /\ lsBlob.valid) =>
        /\ lsBlob' \in {lsBlob, NoBlob}
        /\ lsBlob' # lsBlob =>
             (~sret'.threw /\ Migrated(dbAgents', dbMeta', lsBlob))
        /\ sret'.threw => lsBlob' = lsBlob ]_vars

\* C25 witness: the agents write succeeded, the meta write failed, and the
\* blob is still there
C25_Witness ==
  /\ sret.op = "migrateFromLocalStorage"
  /\ sret.threw
  /\ lsBlob.present /\ lsBlob.valid
  /\ Len(lsBlob.agents) = 2
  /\ \A i \in 1..2 : /\ lsBlob.agents[i].id \in DOMAIN dbAgents
                       /\ dbAgents[lsBlob.agents[i].id] = lsBlob.agents[i]
  /\ dbMeta = NoMeta

\* C26: migration is idempotent: after a run that succeeded the legacy blob
\* is absent, and a second run leaves the agents collection and the
\* currentId and agentOrder meta values as the first run left them.
C26_MigrationIdempotent ==
  [][ /\ (sret'.op = "migrateFromLocalStorage" /\ ~sret'.threw)
          => ~lsBlob'.present
      /\ (MigrateStep /\ sret.op = "migrateFromLocalStorage" /\ ~sret.threw)
          => /\ dbAgents' = dbAgents
             /\ dbMeta' = dbMeta
             /\ lsBlob' = lsBlob
             /\ ~sret'.threw ]_vars

\* C26 witness: migrateFromLocalStorage ran twice; the store holds the two
\* agents the first run wrote, in place of an older record of agent 1
C26_Witness ==
  /\ sret.op = "migrateFromLocalStorage"
  /\ sret.n = 2
  /\ ~sret.threw
  /\ sret.agents = <<>>
  /\ ~lsBlob.present
  /\ "agentOrder" \in DOMAIN dbMeta
  /\ dbMeta["agentOrder"] = <<2, 1>>
  /\ DOMAIN dbAgents = {1, 2, 3}
  /\ dbAgents[1].name = "Agent 1"

\* the stored agentOrder ([] when the entry is missing)
StoredOrder ==
  IF "agentOrder" \in DOMAIN dbMeta THEN dbMeta["agentOrder"] ELSE <<>>

\* the ids of the stored agents: those agentOrder lists, as it lists them,
\* then the others as getAll() met them
OrderedThenRest ==
  SelectSeq(StoredOrder, LAMBDA id : id \in DOMAIN dbAgents)
  \o SelectSeq(KeyOrder(DOMAIN dbAgents),
               LAMBDA id : id \notin Range(StoredOrder))

\* C28: loadAllAgents returns every stored agent exactly once: first the
\* agents whose ids are in agentOrder, in the order agentOrder lists them,
\* then the agents whose ids agentOrder lacks, in their encounter order;
\* ids of agentOrder that have no stored agent are ignored.
C28_OrderReconstruction ==
  sret.op = "loadAllAgents" =>
    /\ Len(sret.agents) = Cardinality(DOMAIN dbAgents)
    /\ [i \in 1..Len(sret.agents) |-> sret.agents[i].id] = OrderedThenRest
    /\ \A i \in 1..Len(sret.agents) :
         sret.agents[i] = dbAgents[sret.agents[i].id]

\* C28 witness: agents 1 and 2 are stored and agentOrder is <<3, 2>>: agent
\* 3 is ignored, agent 2 comes first, the unlisted agent 1 follows
C28_Witness ==
  /\ sret.op = "loadAllAgents"
  /\ DOMAIN dbAgents = {1, 2}
  /\ StoredOrder = <<3, 2>>
  /\ [i \in 1..Len(sret.agents) |-> sret.agents[i].id] = <<2, 1>>

(***************************************************************************)
(* Properties of init (SpecStore)                                          *)
(***************************************************************************)
\* the step is init() resolving
InitStep == ~initDone /\ initDone'

\* the module state has at least one agent and its current id is listed
ValidState(list, h, cur) ==
  /\ Len(list) >= 1
  /\ cur \in Range(IdsOf(list, h))

\* C27: a legacy blob that is present but does not parse: migration returns
\* no agents and a null currentId without writing anything to the store
\* and removes the blob; init, whether it migrates or falls back, ends with
\* at least one agent and a current id that is listed, and after an init
\* that migrated the blob is gone.
C27_CorruptBlobDiscarded ==
  [][ (InitStep /\ lsBlob.present /\ ~lsBlob.valid) =>
        /\ LET R == migrateFromLocalStorage(Durable, "ok")
           IN /\ R.agents = <<>> /\ R.currentId = Null /\ ~R.threw
              /\ R.S.db = dbAgents /\ R.S.meta = dbMeta
              /\ ~R.S.ls.present
        /\ ~fallbackToLocalStorage' => ~lsBlob'.present
        /\ ValidState(agents', heap', currentId') ]_vars

\* C27 witness: init migrated with a blob that does not parse: the blob is
\* gone and "Agent 1" was created and is current
C27_Witness ==
  /\ lastOp = "init"
  /\ initDone
  /\ ~fallbackToLocalStorage
  /\ ~lsBlob.present
  /\ lastFailed = {}
  /\ DOMAIN dbAgents = {1}
  /\ dbAgents[1].name = "Agent 1"
  /\ Len(agents) = 1
  /\ currentId = 1
  /\ dbMeta["agentOrder"] = <<1>>

\* what the try / catch of init() found, given how the step ended
Found ==
  IF fallbackToLocalStorage' THEN legacyLoad(lsBlob)
  ELSE IF hasLegacyData(lsBlob)
    THEN LET R == migrateFromLocalStorage(Durable, "ok")
         IN [agents |-> R.agents, currentId |-> R.currentId]
  ELSE [agents |-> RecordsOf(loadAllAgents(dbAgents, dbMeta), dbAgents),
        currentId |-> loadCurrentId(dbMeta)]

FoundIds == [i \in 1..Len(Found.agents) |-> Found.agents[i].id]

\* the storage calls that persist the agents and the meta entries / the
\* meta entries alone, in the mode the step ended in
AgentsAndMetaWrites(idset) ==
  IF fallbackToLocalStorage' THEN <<Call("legacySave", idset)>>
  ELSE <<Call("saveAgentsBatch", idset), Call("saveMetaBatch", {})>>

MetaWrite(idset) ==
  IF fallbackToLocalStorage' THEN <<Call("legacySave", idset)>>
  ELSE <<Call("saveMetaBatch", {})>>

\* the meta entries of the store are those of the module state after the
\* step
MetaStored ==
  /\ DOMAIN dbMeta' = {"currentId", "agentOrder"}
  /\ dbMeta'["currentId"] = currentId'
  /\ dbMeta'["agentOrder"] = IdsOf(agents', heap')

\* C29: the startup correction is persisted before init resolves and not
\* through the debounce timer: when init finds no agents it creates one
\* agent named "Agent 1", makes it current and issues the agents write and
\* the meta write; when it finds agents but the remembered current id is
\* none of theirs, the first agent in loaded order becomes current and the
\* meta write is issued. (In fallback mode both are the one blob write.)
C29_StartupCorrectionPersisted ==
  [][ InitStep =>
        /\ ~saveTimer' /\ pendingAgent' = Null
        /\ Found.agents = <<>> =>
             /\ Len(agents') = 1
             /\ heap'[agents'[1]].name = "Agent 1"
             /\ heap'[agents'[1]].messages = <<>>
             /\ currentId' = heap'[agents'[1]].id
             /\ lastIssued' = AgentsAndMetaWrites({currentId'})
             /\ (~fallbackToLocalStorage' /\ lastFailed' = {}) =>
                  /\ currentId' \in DOMAIN dbAgents'
                  /\ dbAgents'[currentId'] = heap'[agents'[1]]
                  /\ MetaStored
        /\ (Found.agents # <<>> /\ Found.currentId \notin Range(FoundIds)) =>
             /\ RecordsOf(agents', heap') = Found.agents
             /\ currentId' = FoundIds[1]
             /\ lastIssued' = MetaWrite(Range(FoundIds))
             /\ (~fallbackToLocalStorage' /\ lastFailed' = {}) => MetaStored
      ]_vars

\* C29 witness: the store held agents 1 and 2 in the order 1, 2 and
\* remembered agent 3 as current: init made agent 1 current and wrote the
\* meta entries
C29_Witness ==
  /\ lastOp = "init"
  /\ initDone
  /\ ~fallbackToLocalStorage
  /\ lastFailed = {}
  /\ lastIssued = <<Call("saveMetaBatch", {})>>
  /\ IdsOf(agents, heap) = <<1, 2>>
  /\ currentId = 1
  /\ dbMeta["currentId"] = 1
  /\ dbMeta["agentOrder"] = <<1, 2>>

\* init found nothing and created "Agent 1"
FirstAgentCreated ==
  /\ lastOp = "init"
  /\ initDone
  /\ ~fallbackToLocalStorage
  /\ lastIssued = <<Call("saveAgentsBatch", {1}), Call("saveMetaBatch", {})>>
  /\ DOMAIN dbAgents = {1}
  /\ currentId = 1

(***************************************************************************)
(* Frame and effect of the operations (SpecStore)                          *)
(***************************************************************************)
\* the step is a call of the operation op
OpStep(op) == ops' = ops + 1 /\ lastOp' = op

\* the last agent of the list after the step
NewAgent == heap'[agents'[Len(agents')]]

\* the blob holds the module state after the step
BlobStored ==
  lsBlob' = [present |-> TRUE, valid |-> TRUE,
             agents |-> RecordsOf(agents', heap'), currentId |-> currentId']

\* C30: createAgent appends exactly one new empty agent at the end of the
\* list, leaves every existing agent and their order unchanged, makes the
\* new agent current, and in the same call, without touching the debounce
\* timer, issues a write of the new agent and a meta write whose agentOrder
\* is the new in-memory order and whose currentId is the new id (in
\* fallback mode: blob writes of the new state).
C30_CreateAgentEffect ==
  [][ OpStep("createAgent") =>
        /\ Len(agents') = Len(agents) + 1
        /\ SubSeq(agents', 1, Len(agents)) = agents
        /\ \A i \in 1..Len(agents) : heap'[agents[i]] = heap[agents[i]]
        /\ NewAgent.id \notin Range(IdsOf(agents, heap))
        /\ NewAgent.model = "" /\ NewAgent.systemPrompt = ""
        /\ NewAgent.messages = <<>>
        /\ NewAgent.name \in {"X", "Agent " \o ToString(Len(agents'))}
        /\ currentId' = NewAgent.id
        /\ saveTimer' = saveTimer /\ pendingAgent' = pendingAgent
        /\ lastIssued' =
             IF fallbackToLocalStorage
               THEN <<Call("legacySave", Range(IdsOf(agents', heap'))),
                      Call("legacySave", Range(IdsOf(agents', heap')))>>
               ELSE <<Call("saveAgent", {NewAgent.id}),
                      Call("saveMetaBatch", {})>>
        /\ lastFailed' = {} =>
             IF fallbackToLocalStorage THEN BlobStored
             ELSE /\ NewAgent.id \in DOMAIN dbAgents'
                  /\ dbAgents'[NewAgent.id] = NewAgent
                  /\ \A a \in DOMAIN dbAgents : /\ a \in DOMAIN dbAgents'
                                                 /\ dbAgents'[a] = dbAgents[a]
                  /\ MetaStored ]_vars

\* C30 witness: with agents 2 and 1 loaded in this order, createAgent added
\* agent 3 at the end and made it current, and the store has it
C30_Witness ==
  /\ lastOp = "createAgent"
  /\ lastFailed = {}
  /\ ~fallbackToLocalStorage
  /\ IdsOf(agents, heap) = <<2, 1, 3>>
  /\ currentId = 3
  /\ 3 \in DOMAIN dbAgents
  /\ dbMeta["agentOrder"] = <<2, 1, 3>>
  /\ dbMeta["currentId"] = 3

(***************************************************************************)
(* app.js: the page.  The handlers hold agent objects by reference and     *)
(* change agent.messages in place; sharing records which agent objects     *)
(* hold one and the same array, so that a change made through one of them  *)
(* is seen through the others.                                             *)
(***************************************************************************)
Msg(role, text) == [role |-> role, content |-> text]

\* the agent objects whose messages property is the array held by object a
SharersOf(sh, a) == {a} \cup {b \in UNION sh : {a, b} \in sh}

\* the array held by object a is changed in place to msgs
MutateMessages(h, sh, a, msgs) ==
  [k \in DOMAIN h |-> IF k \in SharersOf(sh, a)
                        THEN [h[k] EXCEPT !.messages = msgs]
                        ELSE h[k]]

\* Object.assign(target, { messages: owner.messages }): who shares afterwards
AssignMessages(sh, target, owner) ==
  IF target \in SharersOf(sh, owner) THEN sh
  ELSE {p \in sh : target \notin p}
       \cup {{target, b} : b \in SharersOf(sh, owner)}

\* state.updateCurrentAgent({ messages: owner.messages }), called with the
\* heap h: the array is assigned to the agent getCurrentAgent() returns
updateMessages(h, sh, owner) ==
  LET agent == getCurrentAgent
  IN IF agent = Null
       THEN /\ Commit(Durable, Mem(h, agents, currentId))
            /\ sharing' = sh
            /\ UNCHANGED <<saveTimer, pendingAgent>>
       ELSE /\ Commit(Durable,
                      Mem(WithObj(h, [h[agent] EXCEPT
                                        !.messages = h[owner].messages]),
                          agents, currentId))
            /\ sharing' = AssignMessages(sh, agent, owner)
            /\ pendingAgent' = agent
            /\ saveTimer' = TRUE

\* the variables of the generation request that the page's handlers leave
relayRest == <<req, rpc, sent, closed, queue, buffer, relayText, aborted,
               calls, doneEffects, appText, content>>

\* a listener registered by setupEventListeners() / render() runs
Handled(ev) ==
  /\ appPos = "ready"
  /\ appEvents < MaxAppEvents
  /\ appEvents' = appEvents + 1
  /\ lastOp' = ev
  /\ lastArg' = Null
  /\ UNCHANGED <<ops, initDone, fallbackToLocalStorage, deleted, win>>
  /\ UNCHANGED <<relayRest, proxyVars, appPos, later>>

\* the relay invokes a callback of the generation started last
CalledBack(cb) ==
  /\ gen.phase \in {"stream", "content"}
  /\ lastOp' = cb
  /\ lastArg' = Null
  /\ UNCHANGED <<ops, initDone, fallbackToLocalStorage, deleted, win>>
  /\ UNCHANGED <<relayRest, proxyVars, appPos, later, appEvents>>

\* init() after "await fetchConfig()": setupModelSelector(),
\* setupApiKeyField(), setupEventListeners(), render().  setupModelSelector
\* reads state.getCurrentAgent().model: a TypeError when there is no agent
PageSetup ==
  /\ appPos = "config"
  /\ appPos' = IF getCurrentAgent = Null THEN "threw" ELSE "ready"
  /\ lastOp' = "setup"
  /\ lastArg' = Null
  /\ Commit(Durable, Here)
  /\ UNCHANGED <<ops, initDone, fallbackToLocalStorage, deleted, win,
                 saveTimer, pendingAgent>>
  /\ UNCHANGED <<relayVars, proxyVars, sharing, gen, appEvents, later>>

\* click on add-user-btn
AddUserMessage ==
  /\ Handled("addUser")
  /\ LET agent == getCurrentAgent
         h1 == MutateMessages(heap, sharing, agent,
                              Append(heap[agent].messages, Msg("user", "")))
     IN updateMessages(h1, sharing, agent)
  /\ UNCHANGED <<gen, streaming, doneFired>>

EditTexts == {"x"}

\* render(): onEditContent(index, content) on the agent render() showed
onEditContent(index, text) ==
  /\ Handled("onEditContent")
  /\ LET agent == getCurrentAgent
     IN /\ index \in 1..Len(heap[agent].messages)
        /\ LET h1 == MutateMessages(heap, sharing, agent,
                       [heap[agent].messages EXCEPT ![index].content = text])
           IN updateMessages(h1, sharing, agent)
  /\ UNCHANGED <<gen, streaming, doneFired>>

\* click on generate-btn while not streaming: startGeneration()
PageStartGeneration ==
  /\ Handled("startGeneration")
  /\ ~streaming
  /\ LET agent == getCurrentAgent
     IN IF Len(heap[agent].messages) = 0
          THEN /\ Commit(Durable, Here)
               /\ UNCHANGED <<sharing, saveTimer, pendingAgent, gen,
                              streaming, doneFired>>
          ELSE LET msgs == Append(heap[agent].messages, Msg("assistant", ""))
                   h1 == MutateMessages(heap, sharing, agent, msgs)
               IN /\ streaming' = TRUE
                  /\ doneFired' = FALSE
                  /\ updateMessages(h1, sharing, agent)
                  /\ gen' = [agent |-> agent, index |-> Len(msgs),
                             text |-> "", phase |-> "stream", cbs |-> 0]

\* agent.messages[streamIndex].content = text, on the agent the generation
\* was started on
SetStreamed(text) ==
  MutateMessages(heap, sharing, gen.agent,
                 [heap[gen.agent].messages EXCEPT ![gen.index].content = text])

Deltas == {"a"}
Contents == {"", "ab"}

\* onDelta(delta)
PageOnDelta(delta) ==
  /\ CalledBack("onDelta")
  /\ gen.phase = "stream"
  /\ gen.cbs < MaxCallbacks
  /\ gen' = [gen EXCEPT !.text = @ \o delta, !.cbs = @ + 1]
  /\ Commit(Durable, Mem(SetStreamed(gen.text \o delta), agents, currentId))
  /\ UNCHANGED <<sharing, saveTimer, pendingAgent, streaming, doneFired>>

\* onContent(content)
PageOnContent(text) ==
  /\ CalledBack("onContent")
  /\ gen.phase = "stream"
  /\ gen' = [gen EXCEPT !.text = IF text # "" THEN text ELSE @,
                        !.phase = "content"]
  /\ updateMessages(IF text # "" THEN SetStreamed(text) ELSE heap,
                    sharing, gen.agent)
  /\ UNCHANGED <<streaming, doneFired>>

\* onError(error)
PageOnError ==
  /\ CalledBack("onError")
  /\ gen.phase = "stream"
  /\ gen' = [gen EXCEPT !.phase = "over"]
  /\ updateMessages(SetStreamed("**Error:** E"), sharing, gen.agent)
  /\ streaming' = FALSE                       \* finishStreaming()
  /\ UNCHANGED doneFired

\* onDone()
PageOnDone ==
  /\ CalledBack("onDone")
  /\ gen' = [gen EXCEPT !.phase = "over"]
  /\ IF doneFired
       THEN /\ Commit(Durable, Here)
            /\ UNCHANGED <<sharing, saveTimer, pendingAgent, streaming,
                           doneFired>>
       ELSE /\ doneFired' = TRUE
            /\ updateMessages(heap, sharing, gen.agent)
            /\ streaming' = FALSE             \* finishStreaming()

\* click on generate-btn while streaming: stopGeneration(); the aborted
\* request invokes no callback any more
PageStop ==
  /\ Handled("stopGeneration")
  /\ streaming
  /\ streaming' = FALSE
  /\ gen' = [gen EXCEPT !.phase = "over"]
  /\ Commit(Durable, Here)
  /\ UNCHANGED <<sharing, saveTimer, pendingAgent, doneFired>>

\* what the browser holds when the page loads: nothing, or a store with an
\* agent that has one message and an agent that has none
PageStorage ==
  { [db |-> [k \in {} |-> Null], meta |-> NoMeta, ls |-> NoBlob],
    [db |-> DbPutAll([k \in {} |-> Null],
                     <<[StoredAgent(1, "Agent 1") EXCEPT
                          !.messages = <<Msg("user", "q")>>],
                       StoredAgent(2, "X")>>),
     meta |-> MetaPut(MetaPut(NoMeta, "currentId", 1), "agentOrder", <<1, 2>>),
     ls |-> NoBlob] }

\* init() of app.js has called state.init() and awaits fetchConfig(); no
\* durable write fails in these runs, and they end before the debounce
\* timer fires (the timer's write is followed in SpecSM and SpecStore)
InitApp ==
  /\ initDone = FALSE
  /\ heap = [k \in {} |-> Null]
  /\ agents = <<>>
  /\ currentId = Null
  /\ fallbackToLocalStorage = FALSE
  /\ saveTimer = FALSE
  /\ pendingAgent = Null
  /\ \E st \in PageStorage :
       /\ dbAgents = st.db
       /\ dbMeta = st.meta
       /\ lsBlob = st.ls
  /\ handed = [k \in {} |-> Null]
  /\ deleted = {}
  /\ win = NoWin
  /\ ops = 0
  /\ lag = FALSE
  /\ hist = [k \in {} |-> Null]
  /\ inflight = <<>>
  /\ disk = [k \in {} |-> Null]
  /\ audit = TRUE
  /\ lastOp = ""
  /\ lastArg = Null
  /\ lastIssued = <<>>
  /\ lastFailed = {}
  /\ okMem = [agents |-> <<>>, currentId |-> Null]
  /\ faults = MaxFaults
  /\ sret = NoStorageCall
  /\ req = NoRequest
  /\ RelayIdle
  /\ hreq = NoHttpRequest
  /\ ProxyIdle
  /\ appPos = "config"
  /\ sharing = {}
  /\ gen = NoGen
  /\ appEvents = 0
  /\ later = FALSE

NextApp ==
  \/ InitOk
  \/ InitFallback
  \/ PageSetup
  \/ \E id \in Ids : setCurrentAgent(id)
  \/ \E id \in Ids : duplicateAgent(id)
  \/ AddUserMessage
  \/ \E index \in 1..MaxAppEvents, text \in EditTexts : onEditContent(index, text)
  \/ PageStartGeneration
  \/ \E delta \in Deltas : PageOnDelta(delta)
  \/ \E text \in Contents : PageOnContent(text)
  \/ PageOnError
  \/ PageOnDone
  \/ PageStop

SpecApp == InitApp /\ [][NextApp]_vars

\* the id the operation was called with is of a listed agent
KnownArg == lastArg' \in Range(IdsOf(agents, heap))

\* the step changed nothing in memory or in the stores and issued no write
NothingDone ==
  /\ agents' = agents
  /\ \A i \in 1..Len(agents) : heap'[agents[i]] = heap[agents[i]]
  /\ currentId' = currentId
  /\ saveTimer' = saveTimer /\ pendingAgent' = pendingAgent
  /\ lastIssued' = <<>>
  /\ dbAgents' = dbAgents /\ dbMeta' = dbMeta /\ lsBlob' = lsBlob

\* n blob writes of the module state after the step
BlobWrites(n) ==
  [i \in 1..n |-> Call("legacySave", Range(IdsOf(agents', heap')))]

\* C31: deleteAgent(id) with a known id removes exactly that agent and
\* keeps the others, unchanged, in order (when it was the only agent a fresh
\* "Agent 1" takes its place); if the removed agent was current the first
\* agent of the resulting list becomes current, otherwise currentId is
\* unchanged; the deletion and the meta entries are written in the call
\* itself. With an unknown id nothing changes and no write is issued.
C31_DeleteAgentEffect ==
  [][ OpStep("deleteAgent") =>
        IF ~KnownArg THEN NothingDone
        ELSE LET id == lastArg'
                 rest == Splice(agents, FindIndex(agents, heap, id))
                 refill == Len(rest) = 0
             IN /\ IF refill
                     THEN /\ Len(agents') = 1
                          /\ NewAgent.id # id
                          /\ NewAgent.name = "Agent 1"
                          /\ NewAgent.messages = <<>>
                          /\ currentId' = NewAgent.id
                     ELSE /\ agents' = rest
                          /\ currentId' = IF currentId = id
                                            THEN heap[rest[1]].id
                                            ELSE currentId
                /\ \A i \in 1..Len(rest) : heap'[rest[i]] = heap[rest[i]]
                /\ saveTimer' = saveTimer /\ pendingAgent' = pendingAgent
                /\ lastIssued' =
                     IF fallbackToLocalStorage
                       THEN BlobWrites(IF refill THEN 3 ELSE 2)
                       ELSE (IF refill THEN <<Call("saveAgent", {NewAgent.id})>>
                             ELSE <<>>)
                            \o <<Call("deleteAgent", {id}),
                                 Call("saveMetaBatch", {})>>
                /\ lastFailed' = {} =>
                     IF fallbackToLocalStorage THEN BlobStored
                     ELSE /\ id \notin DOMAIN dbAgents'
                          /\ MetaStored ]_vars

\* C31 witness: agents 2 and 1 were loaded with 2 current; deleteAgent(2)
\* left agent 1, made it current and removed record 2 from the store
C31_Witness ==
  /\ lastOp = "deleteAgent"
  /\ lastArg = 2
  /\ lastFailed = {}
  /\ ~fallbackToLocalStorage
  /\ IdsOf(agents, heap) = <<1>>
  /\ currentId = 1
  /\ DOMAIN dbAgents = {1}
  /\ dbMeta["agentOrder"] = <<1>>
  /\ dbMeta["currentId"] = 1

\* the step left the objects of the list as they were
AgentsUntouchedIn(list) ==
  \A i \in 1..Len(list) : heap'[list[i]] = heap[list[i]]

\* the step left every listed agent object as it was
AgentsUntouched == agents' = agents /\ AgentsUntouchedIn(agents)

C34_RenameAgentEffect ==
  [][ OpStep("renameAgent") =>
        IF ~KnownArg THEN NothingDone
        ELSE LET id == lastArg'
                 a == agents[FindIndex(agents, heap, id)]
             IN /\ agents' = agents
                /\ currentId' = currentId
                /\ \E name \in RenameNames : heap'[a] = [heap[a] EXCEPT !.name = name]
                /\ \A i \in 1..Len(agents) :
                     agents[i] # a => heap'[agents[i]] = heap[agents[i]]
                /\ saveTimer' = saveTimer /\ pendingAgent' = pendingAgent
                /\ lastIssued' = IF fallbackToLocalStorage THEN BlobWrites(1)
                                 ELSE <<Call("saveAgent", {id})>>
                /\ dbMeta' = dbMeta
                /\ lastFailed' = {} =>
                     IF fallbackToLocalStorage THEN BlobStored
                     ELSE /\ id \in DOMAIN dbAgents'
                          /\ dbAgents'[id] = heap'[a]
                          /\ lsBlob' = lsBlob ]_vars

\* C34 witness: renameAgent wrote the renamed agent while the debounce timer
\* was armed for an earlier edit, and left the timer armed
C34_Witness ==
  /\ lastOp = "renameAgent"
  /\ lastArg \in Range(IdsOf(agents, heap))
  /\ lastFailed = {}
  /\ ~fallbackToLocalStorage
  /\ lastIssued = <<Call("saveAgent", {lastArg})>>
  /\ saveTimer
  /\ pendingAgent # Null
  /\ dbAgents[lastArg].name = heap[agents[FindIndex(agents, heap, lastArg)]].name

(***************************************************************************)
(* Properties of the page (SpecApp)                                        *)
(***************************************************************************)
\* a callback of the running generation was invoked in the step
CallbackStep ==
  /\ lastOp' \in {"onDelta", "onContent", "onError", "onDone"}
  /\ gen.phase \in {"stream", "content"}
  /\ gen' # gen

\* C35: the callbacks of a generation (onDelta, onContent, onError, onDone)
\* change nothing but the messages of the agent the generation was started
\* on: every other listed agent, the current one included, keeps its model,
\* systemPrompt and messages.
C35_GenerationEditsItsAgent ==
  [][ CallbackStep =>
        /\ heap'[gen.agent] = [heap[gen.agent] EXCEPT
                                 !.messages = heap'[gen.agent].messages]
        /\ \A i \in 1..Len(agents) :
             agents[i] # gen.agent => heap'[agents[i]] = heap[agents[i]] ]_vars

\* a callback ran while the agent the generation was started on was current
CallbackOnCurrent ==
  /\ lastOp \in {"onContent", "onDone"}
  /\ gen.phase = "over"
  /\ gen.agent # Null
  /\ heap[gen.agent].id = currentId
  /\ heap[gen.agent].messages[gen.index].content = "ab"

\* C37: init() of app.js goes on to setupModelSelector() and the calls after
\* it only when state.init() has resolved, so that getCurrentAgent() returns
\* an agent.
C37_SetupAfterStateInit ==
  [][ appPos = "config" /\ appPos' # "config" =>
        initDone /\ getCurrentAgent # Null /\ appPos' = "ready" ]_vars

\* state.init() resolved before fetchConfig() did: the setup found an agent
SetupFoundAgent == appPos = "ready" /\ initDone /\ lastOp = "setup"

\* object c was made by duplicateAgent from an object named as s is
CopyOf(c, s) == heap[c].name = heap[s].name \o " (copy)"

\* the messages list of the current agent was edited by the user in the step
EditStep == appEvents' = appEvents + 1 /\ lastOp' \in {"addUser", "onEditContent"}

\* duplicateAgent(id) with a known id added one object, whose model,
\* systemPrompt and messages are the source's, made it current, left every
\* other object as it was and shares no array with any of them
DuplicateFrame ==
  LET id == lastArg'
      src == agents[FindIndex(agents, heap, id)]
  IN /\ agents' = Append(agents, NewAgent.id)
     /\ NewAgent.id \notin Range(IdsOf(agents, heap))
     /\ NewAgent.model = heap[src].model
     /\ NewAgent.systemPrompt = heap[src].systemPrompt
     /\ NewAgent.messages = heap[src].messages
     /\ currentId' = NewAgent.id
     /\ AgentsUntouchedIn(agents)
     /\ SharersOf(sharing', agents'[Len(agents')]) = {agents'[Len(agents')]}

\* C32: duplicateAgent(id) adds one agent with a new id whose model,
\* systemPrompt and messages equal the source's, makes it current and leaves
\* the source and the other agents unchanged (an unknown id changes nothing);
\* and any later edit of the messages of the copy leaves the messages of the
\* source as they were, and the other way round.
C32_DuplicateIsIndependent ==
  [][ /\ OpStep("duplicateAgent") =>
           IF ~KnownArg THEN NothingDone ELSE DuplicateFrame
      /\ EditStep =>
           \A i \in 1..Len(agents) :
              LET edited == getCurrentAgent
                  other == agents[i]
              IN (CopyOf(edited, other) \/ CopyOf(other, edited)) =>
                    heap'[other].messages = heap[other].messages ]_vars

\* what holds of duplicateAgent itself: the frame of the call
DuplicateCopiesDeep ==
  [][ OpStep("duplicateAgent") =>
        IF ~KnownArg THEN NothingDone ELSE DuplicateFrame ]_vars

\* a copy of an agent with a message was made and then edited
CopyEdited ==
  /\ lastOp = "onEditContent"
  /\ \E i \in 1..Len(agents) :
       /\ CopyOf(getCurrentAgent, agents[i])
       /\ Len(heap[agents[i]].messages) > 0
       /\ heap[agents[i]].messages # heap[getCurrentAgent].messages

(***************************************************************************)
(* The text left in a decoder's buffer when the stream closes              *)
(***************************************************************************)
\* the body up to its last line feed
CompleteBody(b) == SubSeq(b, 1, Len(b) - Len(Split(b).rest))

\* C40: when the stream closes, the text left in the buffer of readSSE and
\* of readOpenRouterSSE that no line feed terminated is never processed: it
\* is still in the buffer, and the callbacks invoked are those of the body
\* without that text.
C40_UnterminatedTailDropped ==
  (Streamed /\ rpc = "closed") =>
     /\ buffer = Split(req.body).rest
     /\ calls = WholeCalls([req EXCEPT !.body = CompleteBody(req.body)])

\* C40 witness: the body was a single "data: " line with a text_delta and no
\* line feed; the stream closed and only the closing onDone was invoked
C40_Witness ==
  /\ req.mode = "proxied"
  /\ req.body = <<Prefix, Tok("text_delta", "a")>>
  /\ rpc = "closed"
  /\ buffer = <<Prefix, Tok("text_delta", "a")>>
  /\ calls = <<CB("onDone", "")>>

\* the same in the direct decoder: an unterminated chunk line is not counted
DirectTailDropped ==
  /\ req.mode = "direct"
  /\ req.body = <<Prefix, Tok("chunk", "a")>>
  /\ rpc = "closed"
  /\ calls = <<CB("onContent", ""), CB("onUsage", ""), CB("onDone", "")>>

\* the same in the proxy: the frames of a response read to its end are those
\* of the upstream body without the text after its last line feed
ProxyDropsTail ==
  (/\ hpos = "ended" /\ resStatus = 200 /\ hreq.status = "ok" /\ ~srvAborted
   /\ frames # <<>> /\ frames[Len(frames)].k = "done") =>
     /\ srvBuffer = Split(hreq.body).rest
     /\ frames = ProxyFrames(Split(CompleteBody(hreq.body)).lines)

\* the proxy ended a response whose upstream body was one unterminated line
ProxyTailReached ==
  /\ hpos = "ended"
  /\ hreq.body = <<Prefix, Tok("chunk", "a")>>
  /\ frames = <<Frame("content", ""), Frame("done", "")>>

(***************************************************************************)
(* Two generations, one after the other (SpecRelay)                        *)
(***************************************************************************)
\* the request made first is still being served: not over and not aborted
EarlierInFlight == rpc \in Awaiting /\ ~aborted

\* C38: callbacks of an earlier generation never disturb a later one: while
\* the later generation has not finished, streaming is true, no step that
\* leaves it unfinished changes streaming or doneFired, and the earlier
\* request is no longer in flight.
C38_EarlierLeavesLaterAlone ==
  [][ /\ later' => streaming'
      /\ (later /\ later') => (streaming' = streaming /\ doneFired' = doneFired)
      /\ later' => ~EarlierInFlight' ]_vars

\* a later generation was started after the first had been stopped, and no
\* callback of the stopped request was invoked
LaterAfterStop ==
  /\ later
  /\ streaming
  /\ aborted
  /\ rpc = "caught"
  /\ calls = <<>>

(***************************************************************************)
(* The persistence round trip                                              *)
(***************************************************************************)
\* the module state a fresh init() leaves when it runs on what the browser
\* holds now (with IndexedDB available or not, as in this session)
Reloaded ==
  IF fallbackToLocalStorage
    THEN LET got == legacyLoad(lsBlob)
             M0 == [heap |-> Objects(got.agents),
                    agents |-> [i \in 1..Len(got.agents) |-> got.agents[i].id],
                    currentId |-> got.currentId,
                    fb |-> TRUE]
         IN EnsureOne(Durable, M0).M
    ELSE InitLoaded("ok").M

\* C36: persistence round trip: whenever no debounced write is pending (the
\* timer has fired or flushPendingWrite has run) and every write has
\* completed, a fresh init() on the same storage yields the agents that are
\* in memory, with the same field values, in the same order, and the same
\* currentId.
C36_PersistenceRoundTrip ==
  (initDone /\ DebounceIdle) => MemoryOf(Reloaded) = MemoryOf(Here)

\* an edit was written by the timer and a reload returns what is in memory
RoundTripAfterEdit ==
  /\ initDone
  /\ DebounceIdle
  /\ ~fallbackToLocalStorage
  /\ Len(agents) = 2
  /\ \E i \in 1..Len(agents) : heap[agents[i]].model = "m1"
  /\ MemoryOf(Reloaded) = MemoryOf(Here)

(***************************************************************************)
(* Memory and store after a migration                                      *)
(***************************************************************************)
\* C39: after init() with legacy data present and IndexedDB available, the
\* agents in memory are exactly the agents held in the agents store, and the
\* stored agentOrder lists exactly their ids, also when the store held
\* agents before the migration.
C39_MigratedMemoryIsTheStore ==
  [][ (InitStep /\ hasLegacyData(lsBlob) /\ ~fallbackToLocalStorage'
         /\ lastFailed' = {}) =>
        /\ Range(IdsOf(agents', heap')) = DOMAIN dbAgents'
        /\ Range(dbMeta'["agentOrder"]) = DOMAIN dbAgents' ]_vars

\* the blob was migrated into an empty store: memory and store agree
MigratedIntoEmptyStore ==
  /\ lastOp = "init"
  /\ initDone
  /\ ~fallbackToLocalStorage
  /\ lastFailed = {}
  /\ ~lsBlob.present
  /\ IdsOf(agents, heap) = <<1>>
  /\ DOMAIN dbAgents = {1}
  /\ dbMeta["agentOrder"] = <<1>>
  /\ heap[agents[1]].name = "Agent 1"
  /\ lastIssued # <<Call("saveAgentsBatch", {1}), Call("saveMetaBatch", {})>>

====
